---- MODULE Spec2Model ----
(***************************************************************************)
(* Leader-follower teleoperation engine of ARX-teleop.                     *)
(*                                                                         *)
(* Spec   the follower of the PubNub pair in the Streaming state           *)
(*        (teleoperate_follower_remote.py): the subscribe-callback thread  *)
(*        storing telemetry in the latest-frame slot and the control loop  *)
(*        applying it.  The frames that arrive are those                   *)
(*        LeaderTeleop.publish_positions builds, and those of any other    *)
(*        publisher on the telemetry channel.                              *)
(*                                                                         *)
(* SpecSmoother    one PositionSmoother, smooth called with any motor and  *)
(*        any target.                                                      *)
(* SpecLifecycle   main() of teleoperate_follower_remote.py,               *)
(*        teleoperate_leader_remote.py, teleoperate_multi_arms_standalone  *)
(*        .py and teleoperate_no_calib_standalone.py from set-up to exit:  *)
(*        auto-detection, connect, torque, teleoperation_loop entered and  *)
(*        left, clean-up; every device and transport call may fail.        *)
(* SpecZmq   the ZMQ follower (teleop_single_arx_follower.py) in its loop, *)
(*        fed by its PULL socket.                                          *)
(* SpecShutdown   the follower from Streaming to the exit of main().       *)
(* SpecMapping    the leader-to-follower mapping and its switch.           *)
(* SpecCalib      set_middle_position (set_middle_position_standalone.py). *)
(* SpecMonitor    NetworkMonitor of a leader with its ack listener.        *)
(* SpecDetect     auto_detect_and_identify_ports of the standalone         *)
(*        programs.                                                        *)
(* SpecLeader     the loop of LeaderTeleop reading and publishing.         *)
(* SpecWrapper    ARXArmWrapper: calibration file and tic conversions.     *)
(* SpecListener   TelemetryListener.message under any order of delivery.   *)
(* SpecGripper    GripperForceLimiter (i2rt/robots/utils.py) from new.     *)
(* SpecRetry      reset_calibration and write_homing_offsets, write by     *)
(*        write, with the scheduling of the thread that runs them.         *)
(* SpecConverge   a PositionSmoother called with one target for ever.      *)
(* SpecWrite      SO101Controller.write_positions given any positions.     *)
(*                                                                         *)
(* Time is counted in milliseconds.  Statistics of the PubNub follower     *)
(* that only feed the terminal display (latencies, update_times,           *)
(* last_receive_time) are left out of the state.  In Spec a position       *)
(* write reaches the motor; the disconnect message LeaderTeleop.shutdown   *)
(* publishes is not part of the state.                                     *)
(***************************************************************************)
EXTENDS Integers, Sequences, FiniteSets, TLC

VARIABLES
    \* ---- teleoperate_follower_remote.py
    now,                \* time.time() in ms
    shutdown_requested, \* module flag set by signal_handler
    latest_data,        \* TelemetryListener.latest_data
    last_sequence,      \* TelemetryListener.last_sequence
    received_count,     \* TelemetryListener.received_count
    dropped_count,      \* TelemetryListener.dropped_count
    pc,                 \* position of FollowerTeleop.teleoperation_loop
    smoothers,          \* FollowerTeleop.smoothers[robot_id].current_positions
    goal,               \* Goal_Position last written to every follower motor
    status_channel,     \* acks published on STATUS_CHANNEL
    \* ---- history (not program state)
    applied,            \* delivery -> number of apply_positions calls on it
    last_written,       \* followers the latest apply_positions call wrote to
    applied_after_stop, \* apply_positions calls begun with the shutdown flag set
    delivered,          \* history: the sequence numbers TelemetryListener.message got
    smooth_call,        \* the latest PositionSmoother.smooth call, by itself
    smoother_class,     \* the class SpecSmoother calls: PositionSmoother or ARXPositionSmoother
    arx_initialized,    \* ARXPositionSmoother.initialized
    arx_positions,      \* ARXPositionSmoother.current_positions, in ArxUnits
    arx_call,           \* the latest ARXPositionSmoother.smooth call
    entry,              \* the program main() belongs to
    mpc,                \* where main() is
    idx,                \* index of the robot a loop over the robots is at
    found,              \* how many leader and follower ports auto-detection found
    robots,             \* the controllers main() created, in order
    port_open,          \* robot -> its serial port is open
    connected,          \* robot -> SO101Controller.connected
    torque,             \* robot -> its motors hold torque
    transport,          \* self.pubnub: none, created, subscribed, unsubscribed
    entered_loop,       \* teleoperation_loop has been called
    startup_error,      \* a device connect or torque enable raised
    exit_code,          \* how main() ended
    device_calls,       \* torque, disconnect and unsubscribe calls, in order
    zq,                 \* frames the PULL socket holds, oldest first
    zpc,                \* SingleFollowerTeleop.teleoperation_loop: run or stopped
    z_sequence,         \* sequence number of the last frame pushed to the socket
    arm_connected,      \* ARXArmWrapper.connected
    arm_positions,      \* last set_joint_positions: joint -> offset from centre, in tics
    gripper_position,   \* last gripper position handed to set_catch_pos, in tics
    dt_velocity,        \* TARGET_VELOCITY of the drivetrain motors
    latencies,          \* SingleFollowerTeleop.latencies
    z_applied,          \* sequence numbers of the frames whose commands were issued
    \* ---- the leader-to-follower mapping of teleoperate_leader_remote.py
    \*      (LeaderTeleop.mapping) and teleoperate_multi_arms_standalone.py
    map_program,        \* the program the mapping belongs to
    map_pc,             \* connect, loop, done, or failed when connect raised
    map_leaders,        \* robot ids of the leaders list, in order
    current_mapping,    \* the dict, as the sequence of its <<leader, follower>> items
    switch_requested,   \* KeyboardListener.switch_requested
    switch_call,        \* history: the latest switch applied by itself
    switch_issued,      \* history: times the operator entered 's' during the loop
    switch_performed,   \* history: times the loop called switch_mapping
    \* ---- set_middle_position_standalone.py: one FeetechController
    cal_pc,             \* where set_middle_position is
    cal_idx,            \* index of the motor a loop over the motors is at
    phase_value,        \* the Phase set_middle_position chose
    voltage_read,       \* what controller.read_voltage() did at line 413
    cal_torque,         \* motor -> Torque_Enable
    cal_registers,      \* motor -> Homing_Offset, Min/Max_Position_Limit registers
    cal_positions,      \* positions read at line 437, None before
    cal_offsets,        \* offsets computed at line 447, None before
    cal_log,            \* history: the controller calls made, in order
    offset_writes,      \* history: what write_homing_offsets sent, in order
    \* ---- NetworkMonitor of a leader (teleoperate_leader_remote.py,
    \*      teleop_single_arx_leader.py) and the publish loop feeding it
    mon_program,        \* pubnub or zmq
    mon_pc,             \* publish_positions: idle, or published before message_sent
    mon_sequence,       \* self.sequence of the leader
    on_wire,            \* sequence numbers of the frames that left the leader
    sent_count,         \* NetworkMonitor.sent_count
    ack_count,          \* NetworkMonitor.ack_count
    last_sent_time,     \* keys of NetworkMonitor.last_sent_time
    mon_latencies,      \* NetworkMonitor.latencies, in ms
    acks_delivered,     \* history: number of acks handed to the monitor
    ack_call,           \* history: the latest StatusListener.message on an ack;
                        \* unchanged: it left ack_count and latencies as they were
    stats,              \* what the latest get_stats returned, None before
    \* ---- auto_detect_and_identify_ports of teleoperate_multi_arms_standalone.py
    \*      and of teleoperate_no_calib_standalone.py
    det_program,        \* multi_arms or no_calib
    det_pc,             \* find, scan, returned or raised
    det_ports,          \* what the device at each port answers to read_voltage
    det_idx,            \* the port the for loop is at
    leader_ports,       \* leader_ports; leader_port of no_calib, <<>> for None
    follower_ports,     \* follower_ports; follower_port of no_calib, <<>> for None
    failed_ports,       \* failed_ports
    det_results,        \* history: what identify_robot_by_voltage returned, by port
    \* ---- teleoperation_loop of teleoperate_leader_remote.py: reading the
    \*      leaders and publishing
    lead_pc,            \* loop, stopped, or aborted by an exception
    lead_ticks,         \* history: iterations of the while loop so far
    lead_failures,      \* history: iterations in which a position read failed
    lead_outcomes,      \* history: what each read2ByteTxRx of the latest iteration did
    lead_frame,         \* history: what the latest iteration handed to publish
    \* ---- ARXArmWrapper of teleop_single_arx_follower.py: its calibration and
    \*      its conversions between tics and radians
    wrap_pc,            \* new, loaded, load_raised, connected or connect_raised
    calibration_file,   \* what self.calibration_file holds on disk
    servo_centers,      \* self.servo_centers
    wrap_invert_motors, \* self.invert_motors
    conv_call,          \* history: the latest conversion of a tic to radians and back
    \* ---- GripperForceLimiter of i2rt/robots/utils.py
    is_clogged,         \* self._is_clogged
    gripper_adjusted_qpos,\* self._gripper_adjusted_qpos, NoPosition while it is None
    effort_window,      \* the entries of _past_gripper_effort_queue inside the averaging window
    grip_call,          \* history: the last update call, its input and its outcome
    \* ---- reset_calibration and write_homing_offsets of
    \*      set_middle_position_standalone.py, write by write
    nv_pc,              \* reset, write, done, or raised out of reset_calibration
    nv_idx,             \* index of the motor the loop is at
    nv_register,        \* index of the register reset_calibration is at
    nv_attempt,         \* the loop variable attempt of the write that comes next
    nv_attempts,        \* history: write2ByteTxRx calls made, by procedure, motor and register
    \* ---- a PositionSmoother fed one target call after call
    cv_pc,              \* new, or fed once the smoother holds a starting value
    cv_positions,       \* self.current_positions of that smoother
    cv_target,          \* the target every later call gives
    \* ---- SO101Controller.write_positions called by itself
    wr_call             \* history: the latest write_positions call, its argument and what it sent

followerVars == <<now, shutdown_requested, latest_data, last_sequence, received_count,
                  dropped_count, pc, smoothers, goal, status_channel, applied,
                  last_written, applied_after_stop,
                  delivered>>

smootherVars == <<smooth_call, smoother_class, arx_initialized, arx_positions,
                  arx_call>>

lifecycleVars == <<entry, mpc, idx, found, robots, port_open, connected, torque,
                   transport, entered_loop, startup_error, exit_code, device_calls>>

zmqVars == <<zq, zpc, z_sequence, arm_connected, arm_positions, gripper_position,
             dt_velocity, latencies, z_applied>>

mappingVars == <<map_program, map_pc, map_leaders, current_mapping, switch_requested,
                 switch_call, switch_issued, switch_performed>>

calibVars == <<cal_pc, cal_idx, phase_value, voltage_read, cal_torque, cal_registers,
               cal_positions, cal_offsets, cal_log, offset_writes>>

monitorVars == <<mon_program, mon_pc, mon_sequence, on_wire, sent_count, ack_count,
                 last_sent_time, mon_latencies, acks_delivered, ack_call,
                 stats>>

detectVars == <<det_program, det_pc, det_ports, det_idx, leader_ports,
                follower_ports, failed_ports, det_results>>

leaderVars == <<lead_pc, lead_ticks, lead_failures, lead_outcomes,
                lead_frame>>

wrapperVars == <<wrap_pc, calibration_file, servo_centers, wrap_invert_motors,
                 conv_call>>

gripperVars == <<is_clogged, gripper_adjusted_qpos, effort_window,
                 grip_call>>

retryVars == <<nv_pc, nv_idx, nv_register, nv_attempt, nv_attempts>>

convergeVars == <<cv_pc, cv_positions, cv_target>>

writeVars == <<wr_call>>

\* what the handlers of one part leave alone
notFollowerVars == <<smootherVars, lifecycleVars, zmqVars, mappingVars, calibVars,
                     monitorVars, detectVars, leaderVars, wrapperVars,
                     gripperVars, retryVars, convergeVars, writeVars>>
notSmootherVars == <<lifecycleVars, zmqVars, mappingVars, calibVars, monitorVars,
                     detectVars, leaderVars, wrapperVars, gripperVars,
                     retryVars, convergeVars, writeVars>>
notLifecycleVars == <<now, shutdown_requested, latest_data, last_sequence,
                      received_count, dropped_count, pc, goal, status_channel,
                      applied, last_written, applied_after_stop, delivered,
                      smootherVars,
                      zmqVars, mappingVars, calibVars, monitorVars,
                      detectVars, leaderVars, wrapperVars, gripperVars,
                      retryVars, convergeVars, writeVars>>
notZmqVars == <<followerVars, smootherVars, lifecycleVars, mappingVars, calibVars,
                monitorVars, detectVars, leaderVars, wrapperVars,
                gripperVars, retryVars, convergeVars, writeVars>>
notMappingVars == <<followerVars, smootherVars, lifecycleVars, zmqVars, calibVars,
                    monitorVars, detectVars, leaderVars, wrapperVars,
                    gripperVars, retryVars, convergeVars, writeVars>>
notCalibVars == <<followerVars, smootherVars, lifecycleVars, zmqVars, mappingVars,
                  monitorVars, detectVars, leaderVars, wrapperVars,
                  gripperVars, retryVars, convergeVars, writeVars>>
notMonitorVars == <<followerVars, smootherVars, lifecycleVars, zmqVars, mappingVars,
                    calibVars, detectVars, leaderVars, wrapperVars,
                    gripperVars, retryVars, convergeVars, writeVars>>
notDetectVars == <<followerVars, smootherVars, lifecycleVars, zmqVars,
                   mappingVars, calibVars, monitorVars, leaderVars,
                   wrapperVars, gripperVars, retryVars, convergeVars,
                   writeVars>>
notLeaderVars == <<followerVars, smootherVars, lifecycleVars, zmqVars,
                   mappingVars, calibVars, monitorVars, detectVars,
                   wrapperVars, gripperVars, retryVars, convergeVars,
                   writeVars>>
notWrapperVars == <<followerVars, smootherVars, lifecycleVars, zmqVars,
                    mappingVars, calibVars, monitorVars, detectVars, leaderVars,
                    gripperVars, retryVars, convergeVars, writeVars>>
notGripperVars == <<followerVars, smootherVars, lifecycleVars, zmqVars,
                    mappingVars, calibVars, monitorVars, detectVars, leaderVars, wrapperVars,
                    retryVars, convergeVars, writeVars>>
notRetryVars == <<followerVars, smootherVars, lifecycleVars, zmqVars,
                  mappingVars, calibVars, monitorVars, detectVars, leaderVars, wrapperVars,
                  gripperVars, convergeVars, writeVars>>
notConvergeVars == <<followerVars, smootherVars, lifecycleVars, zmqVars,
                     mappingVars, calibVars, monitorVars, detectVars, leaderVars, wrapperVars,
                     gripperVars, retryVars, writeVars>>
notWriteVars == <<followerVars, smootherVars, lifecycleVars, zmqVars,
                  mappingVars, calibVars, monitorVars, detectVars, leaderVars, wrapperVars,
                  gripperVars, retryVars, convergeVars>>

vars == <<followerVars, smootherVars, lifecycleVars, zmqVars, mappingVars,
          calibVars, monitorVars, detectVars, leaderVars, wrapperVars,
          gripperVars, retryVars, convergeVars, writeVars>>

----------------------------------------------------------------------------
(* Program constants *)

MAX_LATENCY_MS == 200
MAX_POSITION_CHANGE == 200
resolution == 4096

LeaderIds == {"Leader1", "Leader2"}
FollowerIds == {"Follower1", "Follower2"}

\* FollowerTeleop.mapping, fixed in __init__
follower_mapping == [l \in LeaderIds |-> IF l = "Leader1" THEN "Follower1" ELSE "Follower2"]

\* motor ids (a prefix of the default "1,2,3,4,5,6")
MotorIds == {1, 2}

\* smooth_call before any call
NoCall == [n |-> 0]

\* Python None where a slot or a history variable holds a record otherwise
None == [did |-> 0]

----------------------------------------------------------------------------
(* Bounds of the model *)

MaxTime == 201
MaxSeq == 1
MaxDeliveries == 2

\* clock advances between two observations of time.time()
TickSteps == {200, 201}

\* times at which the frames that arrive were stamped by their sender
SendTimes == {0}
MaxSmoothCalls == 4
MaxPorts == 4
MaxZmqFrames == 2
MaxSwitchCalls == 3
MaxKeyPresses == 2
MaxPublishes == 5
MaxAcks == 2
MaxTicks == 2
MaxUpdates == 3
MaxWriteCalls == 2
TargetPositions == {0, 5, 1001, 2048, 4095, 65535}

\* raw positions a leader's Present_Position read can return
EmptyReading == [m \in {} |-> 0]
Readings(leader_id) ==
    IF leader_id = "Leader1"
    THEN { EmptyReading, (1 :> 0) @@ (2 :> 4095), (1 :> 4095) }
    ELSE { EmptyReading, (1 :> 900) }
ReadAll == { reads \in [LeaderIds -> UNION { Readings(l) : l \in LeaderIds }] :
               \A l \in LeaderIds : reads[l] \in Readings(l) }

----------------------------------------------------------------------------
(* Pure helpers *)

\* str(motor_id) and int(motor_id_str)
StrOfMotor(m) ==
    CASE m = 1 -> "1" [] m = 2 -> "2" [] m = 3 -> "3" [] m = 4 -> "4"
      [] m = 5 -> "5" [] m = 6 -> "6" [] m = 7 -> "7"
IntOfMotorStr(s) == CHOOSE m \in 1..7 : StrOfMotor(m) = s

\* Python int(): truncation toward zero of the rational n/d, d > 0
TruncDiv(n, d) == IF n >= 0 THEN n \div d ELSE -((-n) \div d)

Abs(x) == IF x < 0 THEN -x ELSE x
Min(a, b) == IF a < b THEN a ELSE b
Max(a, b) == IF a > b THEN a ELSE b

----------------------------------------------------------------------------
(* PositionSmoother (teleoperate_follower_remote.py) *)

\* a smoothing that lands as far beyond the target as current lies before it
SmoothedOvershoot(current, target) == {2 * target - current}

\* The values int(current * 0.8 + target * (1 - 0.8)) can take.  The exact
\* value is (4*current + target)/5 truncated toward zero.  In IEEE-754
\* double arithmetic 0.8 is rounded up and 1 - 0.8 is rounded down, so when
\* the exact value is an integer the computed sum can fall just short of it
\* on the side of current, and the truncation then loses one tic.
SmoothedCandidates(current, target) ==
    LET n == 4 * current + target
        e == TruncDiv(n, 5)
    IN  IF n % 5 = 0 /\ current < target /\ e > 0 THEN {e, e - 1}
        ELSE IF n % 5 = 0 /\ current > target /\ e < 0 THEN {e, e + 1}
        ELSE {e}

\* "Enforce maximum change limit": lines 213-218
\* a smoother without the limit
LimitChangeOff(current, smoothed) == smoothed

LimitChange(current, smoothed) ==
    IF Abs(smoothed - current) > MAX_POSITION_CHANGE
    THEN current + (IF smoothed > current THEN 1 ELSE -1) * MAX_POSITION_CHANGE
    ELSE smoothed

\* a first call that smooths from 0, the value a new array holds
FirstFromZero(motor_id, target_position) ==
    { LimitChange(0, s) : s \in SmoothedCandidates(0, target_position) }

\* lines 206-208: the first call for a motor
FirstSmooth(motor_id, target_position) == {target_position}

\* PositionSmoother.smooth for one motor: the set of values it can return.
\* positions is current_positions (a function on the motors seen so far).
Smooth(positions, motor_id, target_position) ==
    IF motor_id \notin DOMAIN positions
    THEN FirstSmooth(motor_id, target_position)
    ELSE { LimitChange(positions[motor_id], s) :
             s \in SmoothedCandidates(positions[motor_id], target_position) }

\* the smoother before its first call
ConvergeStart ==
    /\ cv_pc = "new"
    /\ cv_positions = <<>>
    /\ cv_target = 0

\* values the smoother holds when the constant target sets in
StartPositions == {0, 1000, 2040, 2044, 2047, 2048, 2049, 2052, 3000, 4095}

\* the targets that are then repeated
ConstantTargets == {0, 2048, 4095}

\* the motor the calls are for
ConvergeMotor == 1

\* smooth(motor_id, start): the call that leaves the smoother holding the
\* starting value; then the target changes to the one that stays
CvFirstCall ==
    /\ cv_pc = "new"
    /\ \E start \in StartPositions, target_position \in ConstantTargets :
         \E returned \in Smooth(cv_positions, ConvergeMotor, start) :
           /\ cv_positions' = (ConvergeMotor :> returned) @@ cv_positions
           /\ cv_target' = target_position
    /\ cv_pc' = "fed"
    /\ UNCHANGED notConvergeVars

\* smooth(motor_id, target_position) with the same target again
CvFeed ==
    /\ cv_pc = "fed"
    /\ \E returned \in Smooth(cv_positions, ConvergeMotor, cv_target) :
         cv_positions' = (ConvergeMotor :> returned) @@ cv_positions
    /\ UNCHANGED <<cv_pc, cv_target>>
    /\ UNCHANGED notConvergeVars

\* ARXPositionSmoother (teleop_single_arx_follower.py lines 103-132).  An
\* angle is a whole number of units of 0.1/625 rad; the targets are
\* multiples of 625 units, so that current * 0.8 + target * 0.2 is a whole
\* number of units over the calls of a run, and the rounding of the double
\* arithmetic, far below a unit, is left out
arx_max_change == 625
ArxJoints == 1..6

\* np.zeros(6)
ArxZeros == [i \in ArxJoints |-> 0]

\* ARXPositionSmoother.smooth lines 118-132, for one joint
ArxSmoothJoint(current, target) ==
    LET smoothed == (4 * current + target) \div 5
    IN  IF Abs(smoothed - current) > arx_max_change
        THEN current + (IF smoothed > current THEN 1 ELSE -1) * arx_max_change
        ELSE smoothed

\* ARXPositionSmoother.smooth: the array it returns and stores
ArxSmooth(initialized, current_positions, target_positions) ==
    IF ~initialized THEN target_positions
    ELSE [i \in ArxJoints |-> ArxSmoothJoint(current_positions[i], target_positions[i])]

\* the smoothers before any call
SmootherStart(class) ==
    /\ smoother_class = class
    /\ smooth_call = NoCall
    /\ arx_initialized = FALSE
    /\ arx_positions = ArxZeros
    /\ arx_call = NoCall

\* a write_positions that sends the position as it is
ClampOff(position) == position

\* SO101Controller.write_positions: the goal position sent for one motor
ClampGoal(position) == Max(0, Min(resolution - 1, position))

\* positions a frame or a smoother can hand to write_positions: JSON
\* carries any integer
WrittenPositions == {-1, 0, 2048, 4095, 4096, 65535}

\* follower.write_positions(positions) for any follower and any dict of
\* positions (teleoperate_multi_arms_standalone.py lines 192-201, the same
\* in teleoperate_follower_remote.py): every item is clamped and sent
WritePositionsCall ==
    /\ wr_call.n < MaxWriteCalls
    /\ \E f \in FollowerIds, ms \in SUBSET MotorIds :
         \E positions \in [ms -> WrittenPositions] :
           LET sent == [m \in ms |-> ClampGoal(positions[m])]
           IN  /\ goal' = [goal EXCEPT ![f] = sent @@ @]
               /\ wr_call' = [n |-> wr_call.n + 1, robot_id |-> f,
                              positions |-> positions, sent |-> sent]
    /\ UNCHANGED <<now, shutdown_requested, latest_data, last_sequence,
                   received_count, dropped_count, pc, smoothers, status_channel,
                   applied, last_written, applied_after_stop, delivered>>
    /\ UNCHANGED <<smootherVars, lifecycleVars, zmqVars, mappingVars, calibVars,
                   monitorVars, detectVars, leaderVars, wrapperVars, gripperVars,
                   retryVars, convergeVars>>

----------------------------------------------------------------------------
(* teleoperate_leader_remote.py: the frames LeaderTeleop publishes *)

\* LeaderTeleop.switch_mapping: both guards pass with two connected leaders
\* and the two-entry mapping of connect_leaders
SwitchMapping(mapping) ==
    [l \in LeaderIds |-> IF l = "Leader1" THEN mapping["Leader2"] ELSE mapping["Leader1"]]

\* connect_leaders lines 285-288
InitialMapping == [l \in LeaderIds |-> IF l = "Leader1" THEN "Follower1" ELSE "Follower2"]

\* the mappings a LeaderTeleop can hold in Streaming
LeaderMappings == { InitialMapping, SwitchMapping(InitialMapping) }

\* positions as publish_positions serialises them: str(motor_id) -> int(pos)
Serialise(reading) ==
    [s \in { StrOfMotor(m) : m \in DOMAIN reading } |-> reading[IntOfMotorStr(s)]]

\* teleoperation_loop lines 427-431: the leaders that returned a position
ReadPositions(reads) ==
    [l \in { k \in LeaderIds : reads[k] # EmptyReading } |-> reads[l]]

\* publish_positions lines 317-326: leader ids replaced by mapped follower ids
MappedPositions(mapping, positions) ==
    LET keys == { mapping[l] : l \in DOMAIN positions }
    IN  [f \in keys |->
            Serialise(positions[CHOOSE l \in DOMAIN positions : mapping[l] = f])]

\* publish_positions lines 328-333
TelemetryMessage(mapping, positions, seq, time) ==
    [type |-> "telemetry", timestamp |-> time, sequence |-> seq,
     positions |-> MappedPositions(mapping, positions), origin |-> "leader"]

\* every frame a LeaderTeleop can have published by now
LeaderFrames ==
    { TelemetryMessage(mapping, ReadPositions(reads), seq, time) :
        mapping \in LeaderMappings,
        reads \in { r \in ReadAll : DOMAIN ReadPositions(r) # {} },
        seq \in 1..MaxSeq,
        time \in { t \in SendTimes : t <= now } }

\* frames of another publisher on TELEMETRY_CHANNEL, which key the positions
\* by leader id: the keys FollowerTeleop.mapping resolves
PeerFrames ==
    { [type |-> "telemetry", timestamp |-> time, sequence |-> seq,
       positions |-> [l \in DOMAIN ReadPositions(reads) |-> Serialise(reads[l])],
       origin |-> "peer"] :
        reads \in { r \in ReadAll : DOMAIN ReadPositions(r) # {} },
        seq \in 1..MaxSeq,
        time \in { t \in SendTimes : t <= now } }

\* a message on the channel that is no telemetry
OtherMessages == { [type |-> "status"] }

----------------------------------------------------------------------------
(* teleoperate_follower_remote.py: TelemetryListener and FollowerTeleop *)

\* TelemetryListener.message, on the PubNub subscribe thread
Message(data) ==
    /\ IF data.type = "telemetry"
       THEN /\ latest_data' = [frame |-> data, did |-> received_count + 1]
            /\ received_count' = received_count + 1
            /\ dropped_count' =
                 IF last_sequence > 0 /\ data.sequence > last_sequence + 1
                 THEN dropped_count + (data.sequence - last_sequence - 1)
                 ELSE dropped_count
            /\ last_sequence' = data.sequence
            /\ delivered' = Append(delivered, data.sequence)
       ELSE UNCHANGED <<latest_data, received_count, dropped_count, last_sequence,
                        delivered>>
    /\ UNCHANGED <<now, shutdown_requested, pc, smoothers, goal, status_channel,
                   applied, last_written, applied_after_stop>>
    /\ UNCHANGED notFollowerVars

\* a gate that lets every frame through
RejectedNever(latency) == FALSE

\* apply_positions line 412: the staleness gate
Rejected(latency) == latency > MAX_LATENCY_MS

\* apply_positions lines 420-428: the follower each key of the frame resolves
\* to through FollowerTeleop.mapping, with its positions keyed by int(motor id)
Targets(positions_data) ==
    LET resolved == { l \in DOMAIN positions_data : l \in LeaderIds }
    IN  [f \in { follower_mapping[l] : l \in resolved } |->
            LET l == CHOOSE k \in resolved : follower_mapping[k] = f
            IN  [m \in { IntOfMotorStr(x) : x \in DOMAIN positions_data[l] } |->
                    positions_data[l][StrOfMotor(m)]]]

\* apply_positions lines 431-437: the smoothed_positions the loop over the
\* motors of one follower can build
SmoothedPositions(current_positions, leader_positions) ==
    { d \in [DOMAIN leader_positions ->
               UNION { Smooth(current_positions, m, leader_positions[m]) :
                         m \in DOMAIN leader_positions }] :
        \A m \in DOMAIN leader_positions :
            d[m] \in Smooth(current_positions, m, leader_positions[m]) }

\* a loop that leaves the slot as it is
SlotKept == latest_data

\* the slot value teleoperation_loop line 519 stores
ClearedSlot == None

\* signal_handler: Ctrl+C
SignalHandler ==
    /\ ~shutdown_requested
    /\ shutdown_requested' = TRUE
    /\ UNCHANGED <<now, latest_data, last_sequence, received_count, dropped_count,
                   pc, smoothers, goal, status_channel, applied, last_written,
                   applied_after_stop,
                   delivered>>
    /\ UNCHANGED notFollowerVars

\* teleoperation_loop lines 504-506 and 522: the while test, the test of the
\* slot, the sleep
LoopPoll ==
    /\ pc = "poll"
    /\ pc' = IF shutdown_requested THEN "stopped"
             ELSE IF latest_data # None THEN "apply" ELSE "poll"
    /\ UNCHANGED <<now, shutdown_requested, latest_data, last_sequence,
                   received_count, dropped_count, smoothers, goal, status_channel,
                   applied, last_written, applied_after_stop,
                   delivered>>
    /\ UNCHANGED notFollowerVars

\* teleoperation_loop line 508: apply_positions(self.telemetry_listener.latest_data),
\* the slot read again.  acked is FALSE when the ack publish raises.
LoopApply ==
    /\ pc = "apply"
    /\ pc' = "clear"
    /\ LET telemetry_data == latest_data.frame
           latency == now - telemetry_data.timestamp
           targets == Targets(telemetry_data.positions)
       IN  /\ applied' = [applied EXCEPT ![latest_data.did] = @ + 1]
           /\ applied_after_stop' = IF shutdown_requested THEN applied_after_stop + 1
                                    ELSE applied_after_stop
           /\ IF Rejected(latency)
              THEN /\ last_written' = {}
                   /\ UNCHANGED <<status_channel, smoothers, goal>>
              ELSE /\ \E acked \in BOOLEAN :
                        status_channel' =
                          IF acked
                          THEN status_channel \cup
                                 {[type |-> "ack", sequence |-> telemetry_data.sequence,
                                   timestamp |-> telemetry_data.timestamp]}
                          ELSE status_channel
                   /\ \E w \in [DOMAIN targets ->
                                  UNION { SmoothedPositions(smoothers[f], targets[f]) :
                                            f \in DOMAIN targets }] :
                        /\ \A f \in DOMAIN targets :
                              w[f] \in SmoothedPositions(smoothers[f], targets[f])
                        /\ smoothers' = [f \in FollowerIds |->
                                           IF f \in DOMAIN w THEN w[f] @@ smoothers[f]
                                           ELSE smoothers[f]]
                        /\ goal' = [f \in FollowerIds |->
                                      IF f \in DOMAIN w
                                      THEN [m \in DOMAIN w[f] |-> ClampGoal(w[f][m])] @@ goal[f]
                                      ELSE goal[f]]
                        /\ last_written' = DOMAIN w
    /\ UNCHANGED <<now, shutdown_requested, latest_data, last_sequence,
                   received_count, dropped_count, delivered>>
    /\ UNCHANGED notFollowerVars

\* teleoperation_loop line 519: "Clear to prevent reprocessing"
LoopClear ==
    /\ pc = "clear"
    /\ pc' = "poll"
    /\ latest_data' = ClearedSlot
    /\ UNCHANGED <<now, shutdown_requested, last_sequence, received_count,
                   dropped_count, smoothers, goal, status_channel, applied,
                   last_written, applied_after_stop,
                   delivered>>
    /\ UNCHANGED notFollowerVars

\* time passes
Tick ==
    /\ \E d \in TickSteps :
         /\ now + d <= MaxTime
         /\ now' = now + d
    /\ UNCHANGED <<shutdown_requested, latest_data, last_sequence, received_count,
                   dropped_count, pc, smoothers, goal, status_channel, applied,
                   last_written, applied_after_stop,
                   delivered>>
    /\ UNCHANGED notFollowerVars

\* the subscribe thread delivers a message, as long as the subscription
\* stands
Deliver ==
    /\ received_count < MaxDeliveries
    /\ transport = "subscribed"
    /\ \E data \in LeaderFrames \cup PeerFrames \cup OtherMessages : Message(data)

----------------------------------------------------------------------------
(* teleop_single_arx_follower.py: SingleFollowerTeleop in its loop, fed by
   the PULL socket; teleop_single_arx_leader.py builds the frames *)

\* ARXArmWrapper._load_calibration without a calibration file
servo_center == 2048
invert_motors == {}
ArmJoints == 1..6
GripperMotor == 7

\* dict.get(key, default)
Get(d, key, default) == IF key \in DOMAIN d THEN d[key] ELSE default

\* teleop_single_arx_leader.py publish_positions: the frame of one publish
ZmqLeaderFrame(seq, time, left_positions, right_positions, dt_controls) ==
    [type |-> "telemetry", timestamp |-> time, sequence |-> seq,
     left_positions |-> Serialise(left_positions),
     right_positions |-> Serialise(right_positions),
     dt_controls |-> dt_controls]

\* a frame of a sender that puts the arm under "positions", the key
\* apply_positions reads
ZmqPositionsFrame(seq, time, positions, dt_controls) ==
    [type |-> "telemetry", timestamp |-> time, sequence |-> seq,
     positions |-> Serialise(positions), dt_controls |-> dt_controls]

ZmqReadings == { EmptyReading, (1 :> 0) @@ (7 :> 3000) }
DtControls == { [left_speed |-> 0, right_speed |-> 0, z_speed |-> 0],
                [left_speed |-> 5, right_speed |-> 3, z_speed |-> 1] }

ZmqFrames(seq, time) ==
    { ZmqLeaderFrame(seq, time, left, EmptyReading, dt) :
        left \in ZmqReadings, dt \in DtControls }
    \cup { ZmqPositionsFrame(seq, time, positions, dt) :
             positions \in ZmqReadings, dt \in DtControls }

\* write_joint_tics lines 284-301: the array handed to set_joint_positions,
\* np.zeros(6) overwritten for the arm joints the frame has; radians are
\* the offset in tics times the constant servo_to_radian_scale
JointPositions(positions) ==
    [j \in ArmJoints |->
        IF j \in DOMAIN positions
        THEN IF j \in invert_motors THEN servo_center - positions[j]
             ELSE positions[j] - servo_center
        ELSE 0]

\* apply_positions lines 456-459: int(motor_id_str) -> position
MotorPositions(positions_data) ==
    [m \in { IntOfMotorStr(x) : x \in DOMAIN positions_data } |->
        positions_data[StrOfMotor(m)]]

\* a sender's PUSH socket delivers its next frame, stamped now
ZmqArrive ==
    /\ z_sequence < MaxZmqFrames
    /\ \E message \in ZmqFrames(z_sequence + 1, now) : zq' = Append(zq, message)
    /\ z_sequence' = z_sequence + 1
    /\ UNCHANGED <<zpc, arm_connected, arm_positions, gripper_position,
                   dt_velocity, latencies, z_applied>>
    /\ UNCHANGED notZmqVars

\* one iteration of teleoperation_loop (lines 572-597): recv_string with
\* NOBLOCK takes the oldest frame the socket holds, apply_positions
\* (lines 433-478) runs on it.  dt_raised: a drivetrain write raises, which
\* apply_positions catches before the arm is written
ZmqPoll ==
    /\ zpc = "run"
    /\ IF shutdown_requested
       THEN /\ zpc' = "stopped"
            /\ UNCHANGED <<zq, arm_positions, gripper_position, dt_velocity,
                           latencies, z_applied>>
       ELSE IF zq = <<>>
       THEN UNCHANGED <<zq, zpc, arm_positions, gripper_position, dt_velocity,
                        latencies, z_applied>>
       ELSE LET telemetry_data == Head(zq)
                positions_data == Get(telemetry_data, "positions", <<>>)
                dt_controls == Get(telemetry_data, "dt_controls", <<>>)
                latency == now - telemetry_data.timestamp
                motor_positions == MotorPositions(positions_data)
            IN  /\ zq' = Tail(zq)
                /\ latencies' = Append(latencies, latency)
                /\ UNCHANGED zpc
                /\ IF ~arm_connected
                   THEN UNCHANGED <<arm_positions, gripper_position, dt_velocity,
                                    z_applied>>
                   ELSE \E outcome \in {"ok", "dt_raised"} :
                          IF outcome = "dt_raised"
                          THEN UNCHANGED <<arm_positions, gripper_position,
                                           dt_velocity, z_applied>>
                          ELSE /\ dt_velocity' =
                                    [left |-> -Get(dt_controls, "left_speed", 0) * 10,
                                     right |-> Get(dt_controls, "right_speed", 0) * 10,
                                     z |-> Get(dt_controls, "z_speed", 0) * 10]
                               /\ arm_positions' = JointPositions(motor_positions)
                               /\ gripper_position' =
                                    IF GripperMotor \in DOMAIN motor_positions
                                    THEN motor_positions[GripperMotor]
                                    ELSE gripper_position
                               /\ z_applied' = Append(z_applied,
                                     [sequence |-> telemetry_data.sequence,
                                      latency |-> latency])
    /\ UNCHANGED <<z_sequence, arm_connected>>
    /\ UNCHANGED notZmqVars

\* the ZMQ follower in its loop: connect_follower has returned, the arm is
\* at home, the drivetrain stands
ZmqStreaming ==
    /\ zq = <<>>
    /\ zpc = "run"
    /\ z_sequence = 0
    /\ arm_connected = TRUE
    /\ arm_positions = [j \in ArmJoints |-> 0]
    /\ gripper_position = servo_center
    /\ dt_velocity = [left |-> 0, right |-> 0, z |-> 0]
    /\ latencies = <<>>
    /\ z_applied = <<>>

----------------------------------------------------------------------------
(* The leader-to-follower mapping: LeaderTeleop.mapping with
   LeaderTeleop.switch_mapping (teleoperate_leader_remote.py), and the
   mapping of teleoperation_loop with create_random_mapping and
   switch_mapping (teleoperate_multi_arms_standalone.py).  A dict is the
   sequence of its items in insertion order *)

MapPrograms == {"leader_remote", "multi_arms"}

Keys(d) == [i \in DOMAIN d |-> d[i][1]]
Values(d) == [i \in DOMAIN d |-> d[i][2]]
Range(q) == { q[i] : i \in DOMAIN q }

\* all orders random.shuffle can leave a list in
Shuffles(q) ==
    { p \in [DOMAIN q -> Range(q)] :
        \A x \in Range(q) :
            Cardinality({ i \in DOMAIN q : p[i] = x }) =
            Cardinality({ i \in DOMAIN q : q[i] = x }) }

\* LeaderTeleop.__init__ line 224
EmptyDict == <<>>

\* connect_leaders lines 285-288
InitialDict == << <<"Leader1", "Follower1">>, <<"Leader2", "Follower2">> >>

\* what a switch gives back: the new mapping, or the exception it raised
Returned(d) == [raised |-> "", mapping |-> d]
Raised(e, d) == [raised |-> e, mapping |-> d]

\* a switch that returns the mapping as it is
SwitchNothing(n_leaders, d) == Returned(d)

\* a switch that hands the first follower to both leaders
SwitchCollapse(d) ==
    IF Len(d) < 2 THEN Raised("IndexError", d)
    ELSE Returned(<< <<Keys(d)[1], Values(d)[1]>>, <<Keys(d)[2], Values(d)[1]>> >>)

\* LeaderTeleop.switch_mapping with len(self.leaders) = n_leaders and
\* self.mapping = d: the value self.mapping has afterwards
LeaderSwitchMapping(n_leaders, d) ==
    IF n_leaders # 2 THEN Returned(d)
    ELSE IF Len(d) # 2 THEN Returned(d)
    ELSE Returned(<< <<"Leader1", Values(d)[2]>>, <<"Leader2", Values(d)[1]>> >>)

\* switch_mapping(current_mapping) of teleoperate_multi_arms_standalone.py:
\* leader_ids[0], leader_ids[1], follower_ids[0], follower_ids[1] are
\* indexed without a test of the length
MultiSwitchMapping(d) ==
    IF Len(d) < 2 THEN Raised("IndexError", d)
    ELSE Returned(<< <<Keys(d)[1], Values(d)[2]>>, <<Keys(d)[2], Values(d)[1]>> >>)

\* the switch of the program, on its state
SwitchOf(program, n_leaders, d) ==
    IF program = "leader_remote" THEN LeaderSwitchMapping(n_leaders, d)
    ELSE MultiSwitchMapping(d)

\* create_random_mapping(leaders, followers): one mapping for every order
\* the shuffle can produce
CreateRandomMapping(leaders, followers) ==
    { [i \in DOMAIN leaders |-> <<leaders[i], p[i]>>] : p \in Shuffles(followers) }

\* the controllers main() of teleoperate_multi_arms_standalone.py creates
\* for n leader ports (lines 710-728)
MultiLeaders(n) == IF n = 1 THEN <<"Leader">> ELSE <<"Leader1", "Leader2">>
MultiFollowers(n) == IF n = 1 THEN <<"Follower">> ELSE <<"Follower1", "Follower2">>

\* the follower ids the mapping ranges over: those of the controllers of
\* the multi-arm program, and those FollowerTeleop.connect_followers
\* creates for the leader program
ConnectedFollowers ==
    IF map_program = "leader_remote" THEN FollowerIds
    ELSE Range(MultiFollowers(Len(map_leaders)))

\* the mapping part before connect
MappingStart(program) ==
    /\ map_program = program
    /\ map_pc = "connect"
    /\ map_leaders = <<>>
    /\ current_mapping = EmptyDict
    /\ switch_requested = FALSE
    /\ switch_call = NoCall
    /\ switch_issued = 0
    /\ switch_performed = 0

\* connect_leaders (teleoperate_leader_remote.py lines 270-288); main() and
\* the head of teleoperation_loop of teleoperate_multi_arms_standalone.py
\* (lines 707-734, 562-574).  detect_raised: auto-detection raised,
\* connect_raised: a connect raised after the controllers were created
MapConnect ==
    /\ map_pc = "connect"
    /\ \E outcome \in {"ok", "detect_raised", "connect_raised"}, n \in {1, 2} :
         /\ map_leaders' =
               IF outcome = "detect_raised" THEN <<>>
               ELSE IF map_program = "leader_remote" THEN <<"Leader1", "Leader2">>
               ELSE MultiLeaders(n)
         /\ map_pc' = IF outcome = "ok" THEN "loop" ELSE "failed"
         /\ IF outcome # "ok" THEN current_mapping' = current_mapping
            ELSE IF map_program = "leader_remote" THEN current_mapping' = InitialDict
            ELSE IF n = 2
            THEN current_mapping' \in
                   CreateRandomMapping(MultiLeaders(n), MultiFollowers(n))
            ELSE current_mapping' = << <<MultiLeaders(n)[1], MultiFollowers(n)[1]>> >>
    /\ UNCHANGED <<map_program, switch_requested, switch_call, switch_issued,
                   switch_performed>>
    /\ UNCHANGED notMappingVars

\* KeyboardListener._listen: the operator enters 's' and the listener
\* thread sets the flag, set already or not.  The multi-arm program starts
\* the listener with two leaders only (lines 576-580)
KeyPress ==
    /\ map_pc = "loop"
    /\ map_program = "multi_arms" => Len(map_leaders) = 2
    /\ switch_issued < MaxKeyPresses
    /\ switch_requested' = TRUE
    /\ switch_issued' = switch_issued + 1
    /\ UNCHANGED <<map_program, map_pc, map_leaders, current_mapping, switch_call,
                   switch_performed>>
    /\ UNCHANGED notMappingVars

\* the keyboard check of one loop iteration that finds switch_requested
\* set (teleoperate_leader_remote.py lines 417-421,
\* teleoperate_multi_arms_standalone.py lines 595-598)
LoopSwitch ==
    /\ map_pc = "loop"
    /\ switch_requested
    /\ switch_requested' = FALSE
    /\ LET r == SwitchOf(map_program, Len(map_leaders), current_mapping)
       IN  /\ current_mapping' = r.mapping
           /\ map_pc' = IF r.raised = "" THEN "loop" ELSE "failed"
    /\ switch_performed' = switch_performed + 1
    /\ UNCHANGED <<map_program, map_leaders, switch_call, switch_issued>>
    /\ UNCHANGED notMappingVars

\* the loop ends
MapStop ==
    /\ map_pc = "loop"
    /\ map_pc' = "done"
    /\ UNCHANGED <<map_program, map_leaders, current_mapping, switch_requested,
                   switch_call, switch_issued, switch_performed>>
    /\ UNCHANGED notMappingVars

\* the switch of the program applied by itself to the leaders and the
\* mapping the program holds, and applied again to what it returned
SwitchCall ==
    /\ switch_call.n < MaxSwitchCalls
    /\ map_program = "multi_arms" => map_pc \in {"loop", "done"}
    /\ LET once == SwitchOf(map_program, Len(map_leaders), current_mapping)
           twice == SwitchOf(map_program, Len(map_leaders), once.mapping)
       IN  switch_call' = [n |-> switch_call.n + 1, before |-> current_mapping,
                           once |-> once, twice |-> twice]
    /\ UNCHANGED <<map_program, map_pc, map_leaders, current_mapping, switch_requested,
                   switch_issued, switch_performed>>
    /\ UNCHANGED notMappingVars


----------------------------------------------------------------------------
(* set_middle_position_standalone.py: set_middle_position on one connected
   FeetechController of resolution 4096.  A register write or read that
   fails has been retried by the code as often as it retries *)

\* self.motor_ids, in order
MotorSeq == <<1, 2>>

\* bit 11 of Homing_Offset carries the sign (line 321)
SignBit == 11

\* x | (1 << b) for x >= 0
SetBit(x, b) == IF (x \div 2^b) % 2 = 1 THEN x ELSE x + 2^b

\* write_homing_offsets lines 319-323: the value handed to write2ByteTxRx
EncodedOffset(offset) == IF offset < 0 THEN SetBit(Abs(offset), SignBit) ELSE offset

\* calculate_homing_offsets
CalculateHomingOffsets(positions) ==
    [m \in DOMAIN positions |-> positions[m] - (resolution \div 2)]

\* the items of a dict keyed by motor, in the order of self.motor_ids
MotorItems(d) == SelectSeq(MotorSeq, LAMBDA m : m \in DOMAIN d)

\* values Present_Position can return for a motor of this resolution
RawPositions == {0, 2048, 4095}

\* read_positions: the motors whose read succeeded, with their values
PositionReads ==
    UNION { [ms -> RawPositions] : ms \in SUBSET Range(MotorSeq) }

\* the registers of a motor with an earlier calibration in them
CalibratedRegisters(homing_offset) ==
    [homing_offset |-> homing_offset, min_limit |-> 100, max_limit |-> 4000]

CalCall(op, motor) == [op |-> op, motor |-> motor]

\* the controller is connected, set_middle_position is about to be called
CalibStart(homing_offset) ==
    /\ cal_pc = "voltage"
    /\ cal_idx = 1
    /\ phase_value = 0
    /\ voltage_read = [state |-> "unread"]
    /\ cal_torque = [m \in Range(MotorSeq) |-> TRUE]
    /\ cal_registers = [m \in Range(MotorSeq) |-> CalibratedRegisters(homing_offset)]
    /\ cal_positions = None
    /\ cal_offsets = None
    /\ cal_log = <<>>
    /\ offset_writes = <<>>

\* values of the Present_Voltage register, in units of 0.1 V
RawVoltages == {44, 45, 55, 56, 89, 90, 120}

\* read_voltage: the register value, or state "raised" when the result of
\* the read is not COMM_SUCCESS
VoltageReads ==
    { [state |-> "ok", raw |-> raw] : raw \in RawVoltages } \cup {[state |-> "raised"]}

\* 4.5 <= voltage <= 5.5 with voltage = raw / 10.0: the quotients 4.5 and
\* 5.5 are doubles, so the test is the same as 45 <= raw <= 55
BandIsLeader(raw) == 45 <= raw /\ raw <= 55

\* set_middle_position lines 412-423: the role read from the voltage
CalDetectVoltage ==
    /\ cal_pc = "voltage"
    /\ \E read \in VoltageReads :
         /\ voltage_read' = read
         /\ phase_value' = IF read.state = "raised" THEN 76
                           ELSE IF BandIsLeader(read.raw) THEN 76 ELSE 12
    /\ cal_pc' = "disable_torque"
    /\ UNCHANGED <<cal_idx, cal_torque, cal_registers, cal_positions, cal_offsets,
                   cal_log, offset_writes>>
    /\ UNCHANGED notCalibVars

\* controller.disable_torque() at line 426 and at line 461; a write that
\* fails is logged and the motor keeps its torque
CalDisableTorque ==
    /\ cal_pc \in {"disable_torque", "disable_torque_again"}
    /\ \E ok \in [Range(MotorSeq) -> BOOLEAN] :
         cal_torque' = [m \in Range(MotorSeq) |-> IF ok[m] THEN FALSE ELSE cal_torque[m]]
    /\ cal_log' = Append(cal_log, CalCall("disable_torque", 0))
    /\ cal_pc' = IF cal_pc = "disable_torque" THEN "set_mode" ELSE "write"
    /\ cal_idx' = 1
    /\ UNCHANGED <<phase_value, voltage_read, cal_registers, cal_positions, cal_offsets,
                   offset_writes>>
    /\ UNCHANGED notCalibVars

\* lines 429-432: set_phase and set_operating_mode
CalSetMode ==
    /\ cal_pc = "set_mode"
    /\ cal_log' = cal_log \o <<CalCall("set_phase", 0), CalCall("set_operating_mode", 0)>>
    /\ cal_pc' = "read"
    /\ UNCHANGED <<cal_idx, phase_value, voltage_read, cal_torque, cal_registers, cal_positions,
                   cal_offsets, offset_writes>>
    /\ UNCHANGED notCalibVars

\* lines 434-440: the operator has placed the device and pressed ENTER,
\* read_positions; without any position set_middle_position returns
CalReadPositions ==
    /\ cal_pc = "read"
    /\ \E positions \in PositionReads :
         /\ cal_positions' = positions
         /\ cal_pc' = IF DOMAIN positions = {} THEN "done" ELSE "reset"
    /\ cal_log' = Append(cal_log, CalCall("read_positions", 0))
    /\ cal_idx' = 1
    /\ UNCHANGED <<phase_value, voltage_read, cal_torque, cal_registers, cal_offsets, offset_writes>>
    /\ UNCHANGED notCalibVars

\* line 443, reset_calibration lines 249-304 for the next motor: Homing_Offset
\* to 0, Min_Position_Limit to 0, Max_Position_Limit to resolution - 1, each
\* write by itself succeeding or failing
CalResetMotor ==
    /\ cal_pc = "reset"
    /\ LET motor_id == MotorSeq[cal_idx]
       IN  /\ \E homing_ok \in BOOLEAN, min_ok \in BOOLEAN, max_ok \in BOOLEAN :
                cal_registers' = [cal_registers EXCEPT ![motor_id] =
                    [homing_offset |-> IF homing_ok THEN 0 ELSE @.homing_offset,
                     min_limit |-> IF min_ok THEN 0 ELSE @.min_limit,
                     max_limit |-> IF max_ok THEN resolution - 1 ELSE @.max_limit]]
           /\ cal_log' = Append(cal_log, CalCall("reset_calibration", motor_id))
    /\ IF cal_idx < Len(MotorSeq)
       THEN cal_pc' = "reset" /\ cal_idx' = cal_idx + 1
       ELSE cal_pc' = "compute" /\ cal_idx' = 1
    /\ UNCHANGED <<phase_value, voltage_read, cal_torque, cal_positions, cal_offsets, offset_writes>>
    /\ UNCHANGED notCalibVars

\* line 447: calculate_homing_offsets(positions)
CalCompute ==
    /\ cal_pc = "compute"
    /\ cal_offsets' = CalculateHomingOffsets(cal_positions)
    /\ cal_log' = Append(cal_log, CalCall("calculate_homing_offsets", 0))
    /\ cal_pc' = "disable_torque_again"
    /\ UNCHANGED <<cal_idx, phase_value, voltage_read, cal_torque, cal_registers, cal_positions,
                   offset_writes>>
    /\ UNCHANGED notCalibVars

\* line 465, write_homing_offsets lines 317-356 for the next item of
\* offsets: the encoded offset goes to write2ByteTxRx, which succeeds, or
\* fails on every attempt
CalWriteOffset ==
    /\ cal_pc = "write"
    /\ LET items == MotorItems(cal_offsets)
           motor_id == items[cal_idx]
           offset == cal_offsets[motor_id]
           encoded_offset == EncodedOffset(offset)
       IN  /\ \E success \in BOOLEAN :
                /\ cal_registers' =
                      IF success
                      THEN [cal_registers EXCEPT ![motor_id].homing_offset =
                                encoded_offset % 65536]
                      ELSE cal_registers
                /\ offset_writes' = Append(offset_writes,
                      [motor_id |-> motor_id, offset |-> offset,
                       encoded_offset |-> encoded_offset, success |-> success])
           /\ cal_log' = Append(cal_log, CalCall("write_homing_offsets", motor_id))
           /\ IF cal_idx < Len(items)
              THEN cal_pc' = "write" /\ cal_idx' = cal_idx + 1
              ELSE cal_pc' = "done" /\ cal_idx' = 1
    /\ UNCHANGED <<phase_value, voltage_read, cal_torque, cal_positions, cal_offsets>>
    /\ UNCHANGED notCalibVars

\* process_single_robot lines 479-480: set_middle_position has returned,
\* from line 440 or from its end, and process_single_robot returns True
CalReturnTrue ==
    /\ cal_pc = "done"
    /\ cal_pc' = "returned_true"
    /\ UNCHANGED <<cal_idx, phase_value, voltage_read, cal_torque, cal_registers,
                   cal_positions, cal_offsets, cal_log, offset_writes>>
    /\ UNCHANGED notCalibVars

----------------------------------------------------------------------------
(* reset_calibration (lines 239-306) and write_homing_offsets (lines
   308-356) of set_middle_position_standalone.py, one write2ByteTxRx at a
   time, as set_middle_position calls them for the motors of MotorSeq      *)

\* for attempt in range(3)
max_attempts == 3

\* the registers reset_calibration writes for each motor, in order
ResetRegisters == <<"Homing_Offset", "Min_Position_Limit", "Max_Position_Limit">>

\* what one write2ByteTxRx does: it returns COMM_SUCCESS or another
\* result, or the serial port raises
WriteOutcomes == {"COMM_SUCCESS", "failed", "raised"}

NvWrites ==
    { [proc |-> "reset", motor |-> m, register |-> r] :
        m \in Range(MotorSeq), r \in Range(ResetRegisters) } \cup
    { [proc |-> "write", motor |-> m, register |-> "Homing_Offset"] :
        m \in Range(MotorSeq) }

\* a loop that goes round once more than range(3)
OneMoreAttempt(attempt) == attempt = max_attempts

\* the for loop over range(3) has no value left after this attempt
LastAttempt(attempt) == attempt = max_attempts - 1

\* reset_calibration is about to be called
RetryStart ==
    /\ nv_pc = "reset"
    /\ nv_idx = 1
    /\ nv_register = 1
    /\ nv_attempt = 0
    /\ nv_attempts = [w \in NvWrites |-> 0]

\* one write2ByteTxRx of reset_calibration and the loop control after it
\* (lines 254-296): break on COMM_SUCCESS, the next attempt while range(3)
\* has one, else the next register, the next motor, or the return to
\* set_middle_position, which goes on to write_homing_offsets.  Nothing
\* catches an exception of the write
NvResetWrite ==
    /\ nv_pc = "reset"
    /\ \E outcome \in WriteOutcomes :
         LET write == [proc |-> "reset", motor |-> MotorSeq[nv_idx],
                       register |-> ResetRegisters[nv_register]]
         IN  /\ nv_attempts' = [nv_attempts EXCEPT ![write] = @ + 1]
             /\ IF outcome = "raised"
                THEN /\ nv_pc' = "raised"
                     /\ UNCHANGED <<nv_idx, nv_register, nv_attempt>>
                ELSE IF outcome = "failed" /\ ~LastAttempt(nv_attempt)
                THEN /\ nv_attempt' = nv_attempt + 1
                     /\ UNCHANGED <<nv_pc, nv_idx, nv_register>>
                ELSE /\ nv_attempt' = 0
                     /\ IF nv_register < Len(ResetRegisters)
                        THEN /\ nv_register' = nv_register + 1
                             /\ UNCHANGED <<nv_pc, nv_idx>>
                        ELSE /\ nv_register' = 1
                             /\ IF nv_idx < Len(MotorSeq)
                                THEN nv_idx' = nv_idx + 1 /\ nv_pc' = "reset"
                                ELSE nv_idx' = 1 /\ nv_pc' = "write"
    /\ UNCHANGED notRetryVars

\* one write2ByteTxRx of write_homing_offsets and the loop control after
\* it (lines 327-349): an exception of the write is caught and counts as
\* a failed attempt
NvOffsetWrite ==
    /\ nv_pc = "write"
    /\ \E outcome \in WriteOutcomes :
         LET write == [proc |-> "write", motor |-> MotorSeq[nv_idx],
                       register |-> "Homing_Offset"]
         IN  /\ nv_attempts' = [nv_attempts EXCEPT ![write] = @ + 1]
             /\ IF outcome # "COMM_SUCCESS" /\ ~LastAttempt(nv_attempt)
                THEN /\ nv_attempt' = nv_attempt + 1
                     /\ UNCHANGED <<nv_pc, nv_idx>>
                ELSE /\ nv_attempt' = 0
                     /\ IF nv_idx < Len(MotorSeq)
                        THEN nv_idx' = nv_idx + 1 /\ nv_pc' = "write"
                        ELSE nv_idx' = 1 /\ nv_pc' = "done"
    /\ UNCHANGED nv_register
    /\ UNCHANGED notRetryVars

----------------------------------------------------------------------------
(* NetworkMonitor (teleoperate_leader_remote.py lines 86-134,
   teleop_single_arx_leader.py lines 58-107) with the publish_positions that
   feeds it.  A float is the fraction num/den; a latency sample is the
   time since the send, one of LatencySamples *)

MonPrograms == {"pubnub", "zmq"}

\* NetworkMonitor.__init__
max_latency_samples == 100

LatencySamples == {40, 300}

Fraction(num, den) == [num |-> num, den |-> den]
Zero == Fraction(0, 1)

RECURSIVE Sum(_)
Sum(q) == IF q = <<>> THEN 0 ELSE Head(q) + Sum(Tail(q))

MaxOf(q) == CHOOSE x \in Range(q) : \A y \in Range(q) : y <= x

\* how many sent packets make one expected ack: get_stats of the PubNub
\* leader divides by sent_count (line 126), that of the ZMQ leader by
\* sent_count // 5 (line 98)
AckEvery(program) == IF program = "zmq" THEN 5 ELSE 1

\* NetworkMonitor.get_stats
GetStats(program, sent, acked, lat) ==
    IF lat = <<>>
    THEN [avg_latency |-> Zero, max_latency |-> 0, packet_loss |-> Zero,
          sent |-> sent, acked |-> acked]
    ELSE LET expected_acks == sent \div AckEvery(program)
         IN  [avg_latency |-> Fraction(Sum(lat), Len(lat)),
              max_latency |-> MaxOf(lat),
              packet_loss |-> IF expected_acks > 0
                              THEN Fraction(expected_acks - acked, expected_acks)
                              ELSE Zero,
              sent |-> sent, acked |-> acked]

\* a leader before its first publish
MonitorStart(program) ==
    /\ mon_program = program
    /\ mon_pc = "idle"
    /\ mon_sequence = 0
    /\ on_wire = {}
    /\ sent_count = 0
    /\ ack_count = 0
    /\ last_sent_time = {}
    /\ mon_latencies = <<>>
    /\ acks_delivered = 0
    /\ ack_call = NoCall
    /\ stats = None

\* publish_positions up to the publish (teleoperate_leader_remote.py lines
\* 315-337, teleop_single_arx_leader.py lines 254-272); raised: the publish
\* raised, the frame left or did not leave, message_sent is skipped
MonPublish ==
    /\ mon_pc = "idle"
    /\ mon_sequence < MaxPublishes
    /\ mon_sequence' = mon_sequence + 1
    /\ \E outcome \in {"ok", "raised_sent", "raised_unsent"} :
         /\ on_wire' = IF outcome = "raised_unsent" THEN on_wire
                       ELSE on_wire \cup {mon_sequence + 1}
         /\ mon_pc' = IF outcome = "ok" THEN "published" ELSE "idle"
    /\ UNCHANGED <<mon_program, sent_count, ack_count, last_sent_time,
                   mon_latencies, acks_delivered, ack_call, stats>>
    /\ UNCHANGED notMonitorVars

\* self.monitor.message_sent(self.sequence)
MonMessageSent ==
    /\ mon_pc = "published"
    /\ mon_pc' = "idle"
    /\ sent_count' = sent_count + 1
    /\ last_sent_time' = last_sent_time \cup {mon_sequence}
    /\ UNCHANGED <<mon_program, mon_sequence, on_wire, ack_count, mon_latencies,
                   acks_delivered, ack_call, stats>>
    /\ UNCHANGED notMonitorVars

\* sequence numbers no frame of this leader carries
UnknownSequences == {0}

\* StatusListener.message line 153: the f-string formats latency with
\* :.1f, which raises TypeError when message_acknowledged returned None
LogAck(latency_is_none) == IF latency_is_none THEN "TypeError" ELSE ""

\* a message_acknowledged that keeps the send record of the acked frame
AfterAckKept(sent_times, sequence) == sent_times

\* message_acknowledged line 109: del self.last_sent_time[sequence]
AfterAck(sent_times, sequence) == sent_times \ {sequence}

\* StatusListener.message with an ack: message_acknowledged(sequence,
\* timestamp) and the log line.  The ack names a frame that left the leader,
\* once or again, or a sequence the leader never sent.  The ZMQ leader has
\* no ack listener
MonAck ==
    /\ mon_program = "pubnub"
    /\ acks_delivered < MaxAcks
    /\ acks_delivered' = acks_delivered + 1
    /\ \E sequence \in on_wire \cup UnknownSequences, latency \in LatencySamples :
         LET pending == sequence \in last_sent_time
         IN  /\ IF pending
                THEN /\ mon_latencies' =
                          LET appended == Append(mon_latencies, latency)
                          IN  IF Len(appended) > max_latency_samples
                              THEN Tail(appended)
                              ELSE appended
                     /\ ack_count' = ack_count + 1
                     /\ last_sent_time' = AfterAck(last_sent_time, sequence)
                ELSE UNCHANGED <<mon_latencies, ack_count, last_sent_time>>
             /\ ack_call' = [n |-> ack_call.n + 1, sequence |-> sequence,
                             pending |-> pending, raised |-> LogAck(~pending),
                             unchanged |-> /\ ack_count' = ack_count
                                           /\ mon_latencies' = mon_latencies]
    /\ UNCHANGED <<mon_program, mon_pc, mon_sequence, on_wire, sent_count, stats>>
    /\ UNCHANGED notMonitorVars

\* display_status: stats = self.monitor.get_stats()
MonGetStats ==
    /\ stats' = GetStats(mon_program, sent_count, ack_count, mon_latencies)
    /\ UNCHANGED <<mon_program, mon_pc, mon_sequence, on_wire, sent_count,
                   ack_count, last_sent_time, mon_latencies, acks_delivered, ack_call>>
    /\ UNCHANGED notMonitorVars

----------------------------------------------------------------------------
(* GripperForceLimiter of i2rt/robots/utils.py (lines 222-326) for a
   GripperType.YAM_COMPACT_SMALL.  Efforts and speeds are in tenths,
   positions in thousandths of a radian, and kp is such that a tenth of
   effort moves the commanded position by one thousandth.  The clock moves
   in steps of half the averaging window between two updates               *)

\* get_gripper_limiter_params, lines 94-96
clog_force_threshold == 5
clog_speed_threshold == 2
limiter_sign == 1

\* compute_target_gripper_torque line 287: average_effort < 0.2
unclog_effort == 2

\* average_torque_window = 0.1 s, in clock steps
AverageWindow == 2

\* gripper_force_torque_map(current_angle) for the max_force of the model,
\* and line 294: + 0.3 to compensate the friction
MappedTorque == 10
FrictionTorque == 3

NoPosition == [state |-> "None"]
Position(value) == [state |-> "float", value |-> value]
NoUpdate == [n |-> 0]

Efforts == {-9, 1, 8}
Speeds == {0, 5}
ClockSteps == {1, 2}

\* the gripper states MotorChainRobot hands to update
GripperStates ==
    [current_eff : Efforts, current_qvel : Speeds,
     current_qpos : {50}, target_qpos : {0, 100}, last_command_qpos : {50},
     current_normalized_qpos : {5}, target_normalized_qpos : {0, 10}]

RECURSIVE SumAbs(_)
SumAbs(q) == IF q = <<>> THEN 0 ELSE Abs(Head(q)) + SumAbs(Tail(q))

\* the efforts of the queue entries with history_ts > time.time() - window
ValidEfforts(window) == [i \in DOMAIN window |-> window[i].eff]

\* a limiter that averages the magnitudes of the efforts
MeanOfAbs(efforts) == [num |-> SumAbs(efforts), den |-> Len(efforts)]

\* line 278: average_effort = np.abs(np.mean(history_effort[valid_idx]))
AverageEffort(efforts) == [num |-> Abs(Sum(efforts)), den |-> Len(efforts)]

\* np.sign
Sign(x) == IF x > 0 THEN 1 ELSE IF x < 0 THEN -1 ELSE 0

\* lines 283-290: self._is_clogged after the test of the averaged effort
CloggedAfter(clogged, average_effort, gripper_state) ==
    IF clogged
    THEN ~ \/ gripper_state.current_normalized_qpos <
                gripper_state.target_normalized_qpos
           \/ average_effort.num < unclog_effort * average_effort.den
    ELSE /\ average_effort.num > clog_force_threshold * average_effort.den
         /\ Abs(gripper_state.current_qvel) < clog_speed_threshold

\* update lines 306-311: target_gripper_raw_pos
TargetGripperRawPos(gripper_state, target_eff) ==
    LET command_sign ==
            Sign(gripper_state.target_qpos - gripper_state.current_qpos) * limiter_sign
        current_zero_eff_pos ==
            gripper_state.last_command_qpos - command_sign * Abs(gripper_state.current_eff)
    IN  current_zero_eff_pos + command_sign * Abs(target_eff)

\* line 320 with a = 0.1, the float rounded down to a thousandth
Blend(adjusted, raw_pos) == (9 * adjusted + raw_pos) \div 10

\* GripperForceLimiter.__init__
FreshLimiter ==
    /\ is_clogged = FALSE
    /\ gripper_adjusted_qpos = NoPosition
    /\ effort_window = <<>>
    /\ grip_call = NoUpdate

\* update(gripper_state), with compute_target_gripper_torque.  The entry
\* just put is inside the window; the older ones are as old as the clock
\* steps since.  With _gripper_adjusted_qpos None line 320 raises TypeError
\* after _is_clogged and the queue were updated
GripperUpdate ==
    /\ grip_call.n < MaxUpdates
    /\ \E gripper_state \in GripperStates, step \in ClockSteps :
         LET aged == [i \in DOMAIN effort_window |->
                          [effort_window[i] EXCEPT !.age = @ + step]]
             window == Append(SelectSeq(aged, LAMBDA e : e.age < AverageWindow),
                              [age |-> 0, eff |-> gripper_state.current_eff])
             average_effort == AverageEffort(ValidEfforts(window))
             clogged == CloggedAfter(is_clogged, average_effort, gripper_state)
             target_eff == MappedTorque + FrictionTorque
             raises == clogged /\ gripper_adjusted_qpos = NoPosition
             adjusted ==
                 IF ~clogged THEN Position(gripper_state.current_qpos)
                 ELSE IF raises THEN NoPosition
                 ELSE Position(Blend(gripper_adjusted_qpos.value,
                                     TargetGripperRawPos(gripper_state, target_eff)))
         IN  /\ effort_window' = window
             /\ is_clogged' = clogged
             /\ gripper_adjusted_qpos' = adjusted
             /\ grip_call' =
                  [n |-> grip_call.n + 1, gripper_state |-> gripper_state,
                   was_clogged |-> is_clogged,
                   mean_of_abs |-> MeanOfAbs(ValidEfforts(window)),
                   outcome |-> IF raises THEN "TypeError"
                               ELSE IF clogged THEN "adjusted" ELSE "target",
                   returned |-> IF raises THEN NoPosition
                                ELSE IF clogged THEN adjusted
                                ELSE Position(gripper_state.target_qpos)]
    /\ UNCHANGED notGripperVars

----------------------------------------------------------------------------
(* auto_detect_and_identify_ports and identify_robot_by_voltage of
   teleoperate_multi_arms_standalone.py (lines 233-334) and of
   teleoperate_no_calib_standalone.py (lines 167-237) *)

DetectPrograms == {"multi_arms", "no_calib"}

\* a threshold that counts 9.0 V as a leader
ThresholdInclusive(raw) == raw <= 90

\* multi_arms line 250: voltage < 9.0 with voltage = raw / 10.0; 90 / 10.0
\* is the double 9.0 and every smaller quotient is a smaller double
ThresholdIsLeader(raw) == raw < 90

\* is_leader: multi_arms line 250, no_calib line 184
IsLeaderOf(program, raw) ==
    IF program = "multi_arms" THEN ThresholdIsLeader(raw) ELSE BandIsLeader(raw)

\* identify_robot_by_voltage(port, motor_ids) for a device that answers
\* read: multi_arms returns None when connect or read_voltage raises,
\* no_calib re-raises
IdentifyRobotByVoltage(program, read) ==
    IF read.state = "raised"
    THEN [outcome |-> IF program = "multi_arms" THEN "None" ELSE "raised"]
    ELSE [outcome |-> "returned", is_leader |-> IsLeaderOf(program, read.raw),
          raw |-> read.raw]

\* find_robot_ports() with up to n ports
PortReads(n) == UNION { [1..k -> VoltageReads] : k \in 0..n }

\* auto_detect_and_identify_ports is about to be called
DetectStart(program, ports) ==
    /\ det_program = program
    /\ det_pc = "find"
    /\ det_ports = ports
    /\ det_idx = 1
    /\ leader_ports = <<>>
    /\ follower_ports = <<>>
    /\ failed_ports = <<>>
    /\ det_results = <<>>

\* ports = find_robot_ports() and the tests of len(ports): multi_arms lines
\* 268-273, no_calib lines 202-213
DetFindPorts ==
    /\ det_pc = "find"
    /\ IF det_program = "multi_arms"
       THEN /\ det_pc' = IF Len(det_ports) = 0 THEN "raised" ELSE "scan"
            /\ UNCHANGED det_ports
       ELSE /\ det_pc' = IF Len(det_ports) < 2 THEN "raised" ELSE "scan"
            /\ det_ports' = IF Len(det_ports) > 2 THEN SubSeq(det_ports, 1, 2)
                            ELSE det_ports
    /\ UNCHANGED <<det_program, det_idx, leader_ports, follower_ports, failed_ports,
                   det_results>>
    /\ UNCHANGED notDetectVars

\* one pass of "for port in ports": multi_arms lines 283-296, no_calib
\* lines 221-234
DetIdentify ==
    /\ det_pc = "scan"
    /\ det_idx <= Len(det_ports)
    /\ LET result == IdentifyRobotByVoltage(det_program, det_ports[det_idx])
           port == det_idx
       IN  CASE result.outcome = "raised" ->
                  /\ det_pc' = "raised"
                  /\ UNCHANGED <<det_idx, leader_ports, follower_ports, failed_ports,
                                 det_results>>
             [] result.outcome = "None" ->
                  /\ failed_ports' = Append(failed_ports, port)
                  /\ det_idx' = det_idx + 1
                  /\ UNCHANGED <<det_pc, leader_ports, follower_ports, det_results>>
             [] result.outcome = "returned" ->
                  /\ det_results' = Append(det_results,
                                           [port |-> port, is_leader |-> result.is_leader,
                                            raw |-> result.raw])
                  /\ det_idx' = det_idx + 1
                  /\ IF det_program = "multi_arms"
                     THEN /\ leader_ports' = IF result.is_leader
                                             THEN Append(leader_ports, port)
                                             ELSE leader_ports
                          /\ follower_ports' = IF result.is_leader
                                               THEN follower_ports
                                               ELSE Append(follower_ports, port)
                     ELSE /\ leader_ports' = IF result.is_leader /\ leader_ports = <<>>
                                             THEN <<port>>
                                             ELSE leader_ports
                          /\ follower_ports' =
                                IF ~(result.is_leader /\ leader_ports = <<>>)
                                   /\ ~result.is_leader /\ follower_ports = <<>>
                                THEN <<port>>
                                ELSE follower_ports
                  /\ UNCHANGED <<det_pc, failed_ports>>
    /\ UNCHANGED <<det_program, det_ports>>
    /\ UNCHANGED notDetectVars

\* after the loop: the configurations multi_arms accepts (lines 308-328),
\* the two ports no_calib needs (lines 236-239)
DetCheck ==
    /\ det_pc = "scan"
    /\ det_idx > Len(det_ports)
    /\ LET nl == Len(leader_ports)
           nf == Len(follower_ports)
       IN  det_pc' = IF det_program = "multi_arms"
                     THEN IF (nl = 1 /\ nf = 1) \/ (nl = 2 /\ nf = 2)
                          THEN "returned" ELSE "raised"
                     ELSE IF nl = 0 \/ nf = 0 THEN "raised" ELSE "returned"
    /\ UNCHANGED <<det_program, det_ports, det_idx, leader_ports, follower_ports,
                   failed_ports, det_results>>
    /\ UNCHANGED notDetectVars

----------------------------------------------------------------------------
(* teleoperation_loop of teleoperate_leader_remote.py (lines 412-447) with
   SO101Controller.read_positions (teleoperate_multi_arms_standalone.py
   lines 166-190) and publish_positions *)

\* what read2ByteTxRx does for one motor: a position with COMM_SUCCESS, a
\* result other than COMM_SUCCESS, or an exception
ChannelReads ==
    { [ok |-> TRUE, position |-> p] : p \in {4095} }
      \cup { [ok |-> FALSE, why |-> w] : w \in {"status", "raised"} }

\* a read_positions that gives up the whole robot when one motor fails
read_positions_all_or_nothing(outcomes) ==
    IF \A m \in DOMAIN outcomes : outcomes[m].ok
    THEN [m \in DOMAIN outcomes |-> outcomes[m].position]
    ELSE EmptyReading

\* SO101Controller.read_positions: the dict of the motors whose read
\* succeeded
read_positions(outcomes) ==
    [m \in { k \in DOMAIN outcomes : outcomes[k].ok } |-> outcomes[m].position]

\* lead_frame when nothing was handed to publish
NoFrame == [handed |-> FALSE, publish |-> "none"]

\* the loop has started
LeaderLoopStart ==
    /\ lead_pc = "loop"
    /\ lead_ticks = 0
    /\ lead_failures = 0
    /\ lead_outcomes = [l \in LeaderIds |-> [m \in MotorIds |-> [ok |-> TRUE, position |-> 0]]]
    /\ lead_frame = NoFrame

\* one iteration of the while loop, lines 427-435: every leader is read,
\* the leaders with positions are published.  publish: PubNubException is
\* caught in publish_positions, any other exception leaves the loop
LeaderTick ==
    /\ lead_pc = "loop"
    /\ lead_ticks < MaxTicks
    /\ \E outcomes \in [LeaderIds -> [MotorIds -> ChannelReads]],
          mapping \in LeaderMappings,
          publish \in {"ok", "PubNubException", "raised"} :
         LET reads == [l \in LeaderIds |-> read_positions(outcomes[l])]
             positions == ReadPositions(reads)
             handed == DOMAIN positions # {}
         IN  /\ lead_outcomes' = outcomes
             /\ lead_failures' =
                   IF \E l \in LeaderIds, m \in MotorIds : ~outcomes[l][m].ok
                   THEN lead_failures + 1 ELSE lead_failures
             /\ lead_frame' =
                   IF handed
                   THEN [handed |-> TRUE, publish |-> publish, mapping |-> mapping,
                         positions |-> MappedPositions(mapping, positions)]
                   ELSE NoFrame
             /\ lead_pc' = IF handed /\ publish = "raised" THEN "aborted" ELSE "loop"
    /\ lead_ticks' = lead_ticks + 1
    /\ UNCHANGED notLeaderVars

\* self.running, shutdown_requested or stop_requested ends the loop
LeaderStop ==
    /\ lead_pc = "loop"
    /\ lead_pc' = "stopped"
    /\ UNCHANGED <<lead_ticks, lead_failures, lead_outcomes, lead_frame>>
    /\ UNCHANGED notLeaderVars

----------------------------------------------------------------------------
(* ARXArmWrapper of teleop_single_arx_follower.py: __init__ with
   _load_calibration (lines 138-202), connect, and the conversions of
   write_joint_tics (lines 284-299) and read_joint_tics (lines 248-259).
   An angle is a whole number of units of servo_to_radian_scale radians, the
   angle of one tic *)

\* range(1, 8)
WrapperMotors == 1..7

\* default_centers and default_invert
default_centers == [i \in WrapperMotors |-> 2048]
default_invert == {}

\* home_positions of a calibration file: str(motor_id) -> value, for some
\* of the motors
HomePositions ==
    UNION { [ms -> {0, 1000, 4095}] : ms \in SUBSET {1, 2} }

\* the calibration file: missing, unreadable (open or json.load raises), or
\* a JSON object; unparsable: the keys of home_positions whose value int()
\* rejects
CalibrationFiles ==
    {[state |-> "missing"], [state |-> "unreadable"]}
      \cup { [state |-> "ok", home_positions |-> hp, unparsable |-> bad,
              motor_ids |-> ms, invert_motors |-> inv] :
                hp \in HomePositions, bad \in {{}, {1}},
                ms \in {WrapperMotors, {1, 2}, {2}}, inv \in {{}, {1}} }

\* what a call returned or raised
Loaded(centers, invert) ==
    [raised |-> "", servo_centers |-> centers, invert_motors |-> invert]
LoadRaised(e) ==
    [raised |-> e, servo_centers |-> default_centers, invert_motors |-> default_invert]

\* a loader that insists on a complete file
LoadCalibrationStrict(file) ==
    IF file.state = "missing" THEN LoadRaised("FileNotFoundError")
    ELSE IF file.state = "unreadable" THEN LoadRaised("JSONDecodeError")
    ELSE IF \E m \in file.motor_ids : m \notin DOMAIN file.home_positions
    THEN LoadRaised("KeyError")
    ELSE Loaded([m \in file.motor_ids |-> file.home_positions[m]], file.invert_motors)

\* ARXArmWrapper._load_calibration (lines 163-202)
LoadCalibration(file) ==
    IF file.state = "missing" THEN Loaded(default_centers, default_invert)
    ELSE IF file.state = "unreadable" THEN Loaded(default_centers, default_invert)
    ELSE IF \E m \in file.motor_ids :
              m \in DOMAIN file.home_positions /\ m \in file.unparsable
    THEN Loaded(default_centers, default_invert)
    ELSE Loaded([m \in file.motor_ids |->
                    IF m \in DOMAIN file.home_positions
                    THEN file.home_positions[m] ELSE 2048],
                file.invert_motors)

\* self.servo_centers.get(motor_id, 2048), lines 250 and 287
CenterOf(centers, motor_id) == Get(centers, motor_id, 2048)

\* write_joint_tics lines 290-297: rad_pos, in units of
\* servo_to_radian_scale
RadiansOfTics(inverted, center, tic_pos) ==
    IF inverted THEN center - tic_pos ELSE tic_pos - center

\* int(x) of a double x that is the whole number v up to rounding: the
\* product with servo_to_radian_scale and the division by it leave x at v
\* or next to it on either side, and int truncates toward zero
IntNear(v) ==
    {v} \cup (IF v > 0 THEN {v - 1} ELSE {}) \cup (IF v < 0 THEN {v + 1} ELSE {})

\* a read that leaves the inversion out
TicsOfRadiansUninverted(inverted, center, pos_rad) ==
    IF pos_rad = 0 THEN {center} ELSE IntNear(pos_rad + center)

\* read_joint_tics lines 253-258: the values tic_pos can take; at 0 rad
\* the arithmetic is exact
TicsOfRadians(inverted, center, pos_rad) ==
    IF pos_rad = 0 THEN {center}
    ELSE IF inverted THEN IntNear(center - pos_rad)
    ELSE IntNear(pos_rad + center)

\* tics a leader servo reports
TicPositions == {0, 1, 13, 2048, 4095}

\* conv_call before any conversion
NoConversion == [made |-> FALSE]

\* before ARXArmWrapper(...) is called, file on disk
WrapperStart(file) ==
    /\ wrap_pc = "new"
    /\ calibration_file = file
    /\ servo_centers = <<>>
    /\ wrap_invert_motors = {}
    /\ conv_call = NoConversion

\* ARXArmWrapper.__init__ (lines 138-161)
WrapperInit ==
    /\ wrap_pc = "new"
    /\ LET r == LoadCalibration(calibration_file)
       IN  /\ servo_centers' = r.servo_centers
           /\ wrap_invert_motors' = r.invert_motors
           /\ wrap_pc' = IF r.raised = "" THEN "loaded" ELSE "load_raised"
    /\ UNCHANGED <<calibration_file, conv_call>>
    /\ UNCHANGED notWrapperVars

\* ARXArmWrapper.connect (lines 204-216): ARXArm(...) or go_home may raise
WrapperConnect ==
    /\ wrap_pc = "loaded"
    /\ \E ok \in BOOLEAN : wrap_pc' = IF ok THEN "connected" ELSE "connect_raised"
    /\ UNCHANGED <<calibration_file, servo_centers, wrap_invert_motors, conv_call>>
    /\ UNCHANGED notWrapperVars

\* the formula of write_joint_tics applied to a tic of an arm joint, and
\* the formula of read_joint_tics applied to the angle it gave
ConvertAndBack ==
    /\ wrap_pc \in {"loaded", "connected"}
    /\ \E motor_id \in {1, 2, 3}, tic_pos \in TicPositions :
         LET inverted == motor_id \in wrap_invert_motors
             center == CenterOf(servo_centers, motor_id)
             rad_pos == RadiansOfTics(inverted, center, tic_pos)
         IN  \E back \in TicsOfRadians(inverted, center, rad_pos) :
                conv_call' = [made |-> TRUE, motor_id |-> motor_id,
                              inverted |-> inverted, center |-> center,
                              tic_pos |-> tic_pos, rad_pos |-> rad_pos,
                              back |-> back]
    /\ UNCHANGED <<wrap_pc, calibration_file, servo_centers, wrap_invert_motors>>
    /\ UNCHANGED notWrapperVars

----------------------------------------------------------------------------
(* main() of teleoperate_follower_remote.py, teleoperate_leader_remote.py,
   teleoperate_multi_arms_standalone.py and teleoperate_no_calib_standalone.py:
   set-up, auto-detection, connect, teleoperation_loop, clean-up *)

Entries == {"follower_remote", "leader_remote", "multi_arms", "no_calib"}
Remote == {"follower_remote", "leader_remote"}
RobotIds == {"Leader", "Follower", "Leader1", "Leader2", "Follower1", "Follower2"}
IsFollower(r) == r \in {"Follower", "Follower1", "Follower2"}

\* what identify_robot_by_voltage makes of a port; failed: it raised or
\* returned None
PortClasses == {"leader", "follower", "failed"}
PortSeqs == UNION { [1..n -> PortClasses] : n \in 0..MaxPorts }
Count(ports, c) == Cardinality({ i \in DOMAIN ports : ports[i] = c })

\* the ports auto-detection identifies: no_calib tests the first two only,
\* and none when it finds fewer than two
Tested(e, ports) ==
    IF e = "no_calib"
    THEN IF Len(ports) < 2 THEN <<>> ELSE SubSeq(ports, 1, 2)
    ELSE ports

\* auto-detection accepts everything
DetectAnything(e, ports, cancelled) == TRUE

\* auto_detect_followers, auto_detect_leaders, auto_detect_and_identify_ports
\* (both): TRUE when the function returns ports, FALSE when it raises
DetectOk(e, ports, cancelled) ==
    LET nl == Count(Tested(e, ports), "leader")
        nf == Count(Tested(e, ports), "follower")
    IN  CASE e = "follower_remote" -> ~cancelled /\ nf = 2
          [] e = "leader_remote" -> nl = 2
          [] e = "multi_arms" -> (nl = 1 /\ nf = 1) \/ (nl = 2 /\ nf = 2)
          [] e = "no_calib" ->
                Count(Tested(e, ports), "failed") = 0 /\ nl >= 1 /\ nf >= 1

\* the controllers main() creates from the detected ports
RobotList(e, nl) ==
    CASE e = "follower_remote" -> <<"Follower1", "Follower2">>
      [] e = "leader_remote" -> <<"Leader1", "Leader2">>
      [] e = "multi_arms" ->
            IF nl = 1 THEN <<"Leader", "Follower">>
            ELSE <<"Leader1", "Leader2", "Follower1", "Follower2">>
      [] e = "no_calib" -> <<"Leader", "Follower">>

\* the followers among the controllers, in order
FollowersOf(rs) == SelectSeq(rs, IsFollower)

\* value of found before auto-detection
NotDetected == [leaders |-> -1, followers |-> -1]

\* where the except/finally clauses of main() start: FollowerTeleop.shutdown
\* and LeaderTeleop.shutdown with unsubscribe, multi_arms with the torque
\* loop, no_calib with the disconnects
CleanupPc(e, rs) ==
    CASE e \in Remote -> "unsubscribe"
      [] e = "multi_arms" -> IF rs = <<>> THEN "exit" ELSE "disable_torque"
      [] e = "no_calib" -> "disconnect"

\* exit status when an exception ends main(): the remote programs return 1,
\* the standalone ones re-raise
ErrorExit(e) == IF e \in Remote THEN "1" ELSE "raised"

Call(op, r) == [op |-> op, robot |-> r]

\* the lifecycle of the follower that Spec starts from: connect_followers
\* has returned and teleoperation_loop runs
Streaming ==
    /\ entry = "follower_remote"
    /\ mpc = "loop"
    /\ idx = 2
    /\ found = [leaders |-> 0, followers |-> 2]
    /\ robots = <<"Follower1", "Follower2">>
    /\ port_open = [r \in RobotIds |-> IsFollower(r) /\ r # "Follower"]
    /\ connected = [r \in RobotIds |-> IsFollower(r) /\ r # "Follower"]
    /\ torque = [r \in RobotIds |-> IsFollower(r) /\ r # "Follower"]
    /\ transport = "subscribed"
    /\ entered_loop = TRUE
    /\ startup_error = FALSE
    /\ exit_code = "running"
    /\ device_calls = <<Call("enable_torque", "Follower1"),
                        Call("enable_torque", "Follower2")>>

\* setup_pubnub of FollowerTeleop and of LeaderTeleop; raised_early: before
\* self.pubnub is assigned, raised_late: in add_listener or subscribe
SetupPubnub ==
    /\ entry \in Remote
    /\ mpc = "setup_pubnub"
    /\ \E outcome \in {"ok", "raised_early", "raised_late"} :
         /\ transport' = CASE outcome = "ok" -> "subscribed"
                           [] outcome = "raised_early" -> "none"
                           [] outcome = "raised_late" -> "created"
         /\ mpc' = IF outcome = "ok" THEN "detect" ELSE CleanupPc(entry, robots)
         /\ exit_code' = IF outcome = "ok" THEN exit_code ELSE ErrorExit(entry)
    /\ UNCHANGED <<entry, idx, found, robots, port_open, connected, torque,
                   entered_loop, startup_error, device_calls, smoothers>>
    /\ UNCHANGED notLifecycleVars

\* auto-detection over the ports find_robot_ports returns, and the creation
\* of the controllers; cancelled: the operator breaks off the permission
\* prompt of auto_detect_followers
AutoDetect ==
    /\ mpc = "detect"
    /\ \E ports \in PortSeqs, cancelled \in BOOLEAN :
         LET nl == Count(Tested(entry, ports), "leader")
             nf == Count(Tested(entry, ports), "follower")
         IN  /\ found' = [leaders |-> nl, followers |-> nf]
             /\ IF DetectOk(entry, ports, cancelled)
                THEN /\ robots' = RobotList(entry, nl)
                     /\ mpc' = "connect"
                     /\ UNCHANGED exit_code
                ELSE /\ robots' = robots
                     /\ mpc' = IF entry \in Remote THEN "unsubscribe" ELSE "exit"
                     /\ exit_code' = CASE entry \in Remote -> "1"
                                       [] entry = "multi_arms" -> "raised"
                                       [] entry = "no_calib" -> "0"
    /\ idx' = 1
    /\ UNCHANGED <<entry, port_open, connected, torque, transport, entered_loop,
                   startup_error, device_calls, smoothers>>
    /\ UNCHANGED notLifecycleVars

\* teleoperate_no_calib_standalone main lines 351-356: both ports given on
\* the command line
UseGivenPorts ==
    /\ entry = "no_calib"
    /\ mpc = "detect"
    /\ robots' = RobotList(entry, 1)
    /\ mpc' = "connect"
    /\ idx' = 1
    /\ UNCHANGED <<entry, found, port_open, connected, torque, transport,
                   entered_loop, startup_error, exit_code, device_calls, smoothers>>
    /\ UNCHANGED notLifecycleVars

\* SO101Controller.connect on the next controller, and what main() or
\* connect_followers / connect_leaders does next
Connect ==
    /\ mpc = "connect"
    /\ LET r == robots[idx]
       IN  \E outcome \in {"ok", "open_failed", "ping_failed"} :
             /\ port_open' = [port_open EXCEPT ![r] = (outcome # "open_failed")]
             /\ connected' = [connected EXCEPT ![r] = (outcome = "ok")]
             /\ IF outcome = "ok"
                THEN /\ UNCHANGED <<startup_error, exit_code>>
                     /\ IF entry = "follower_remote"
                        THEN /\ mpc' = "enable_torque"
                             /\ UNCHANGED <<idx, entered_loop>>
                        ELSE IF idx < Len(robots)
                        THEN /\ mpc' = "connect"
                             /\ idx' = idx + 1
                             /\ UNCHANGED entered_loop
                        ELSE /\ mpc' = IF entry = "leader_remote" THEN "loop"
                                       ELSE "loop_enable_torque"
                             /\ idx' = 1
                             /\ entered_loop' = TRUE
                ELSE /\ startup_error' = TRUE
                     /\ exit_code' = ErrorExit(entry)
                     /\ mpc' = CleanupPc(entry, robots)
                     /\ idx' = 1
                     /\ UNCHANGED entered_loop
    /\ UNCHANGED <<entry, found, robots, torque, transport, device_calls, smoothers>>
    /\ UNCHANGED notLifecycleVars

\* connect_followers lines 364-368: enable_torque on the follower just
\* connected, then its PositionSmoother.  comm_failed: a write returned a
\* failure, which enable_torque only logs; partial: some motor took the
\* write before the failure
EnableTorque ==
    /\ entry = "follower_remote"
    /\ mpc = "enable_torque"
    /\ LET r == robots[idx]
       IN  \E outcome \in {"ok", "comm_failed", "raised"}, partial \in BOOLEAN :
             /\ device_calls' = Append(device_calls, Call("enable_torque", r))
             /\ torque' = [torque EXCEPT ![r] = IF outcome = "ok" THEN TRUE ELSE partial]
             /\ IF outcome # "raised"
                THEN /\ smoothers' = (r :> <<>>) @@ smoothers
                     /\ UNCHANGED <<startup_error, exit_code>>
                     /\ IF idx < Len(robots)
                        THEN /\ mpc' = "connect"
                             /\ idx' = idx + 1
                             /\ UNCHANGED entered_loop
                        ELSE /\ mpc' = "loop"
                             /\ idx' = 1
                             /\ entered_loop' = TRUE
                ELSE /\ startup_error' = TRUE
                     /\ exit_code' = ErrorExit(entry)
                     /\ mpc' = CleanupPc(entry, robots)
                     /\ idx' = 1
                     /\ UNCHANGED <<entered_loop, smoothers>>
    /\ UNCHANGED <<entry, found, robots, port_open, connected, transport>>
    /\ UNCHANGED notLifecycleVars

\* teleoperation_loop of the standalone programs, before its loop:
\* enable_torque on the next follower (multi_arms lines 555-556, no_calib
\* line 273)
LoopEnableTorque ==
    /\ mpc = "loop_enable_torque"
    /\ LET followers == FollowersOf(robots)
           r == followers[idx]
       IN  \E outcome \in {"ok", "comm_failed", "raised"}, partial \in BOOLEAN :
             /\ device_calls' = Append(device_calls, Call("enable_torque", r))
             /\ torque' = [torque EXCEPT ![r] = IF outcome = "ok" THEN TRUE ELSE partial]
             /\ IF outcome # "raised"
                THEN /\ UNCHANGED exit_code
                     /\ IF idx < Len(followers)
                        THEN mpc' = "loop_enable_torque" /\ idx' = idx + 1
                        ELSE mpc' = "loop" /\ idx' = 1
                ELSE /\ exit_code' = ErrorExit(entry)
                     /\ mpc' = CleanupPc(entry, robots)
                     /\ idx' = 1
    /\ UNCHANGED <<entry, found, robots, port_open, connected, transport,
                   entered_loop, startup_error, smoothers>>
    /\ UNCHANGED notLifecycleVars

\* teleoperation_loop ends: stopped by the shutdown flag, Ctrl+C or the
\* duration, or left by an exception
LoopExit ==
    /\ mpc = "loop"
    /\ \E how \in {"stopped", "raised"} :
         exit_code' = IF how = "stopped" THEN "0" ELSE ErrorExit(entry)
    /\ mpc' = CleanupPc(entry, robots)
    /\ idx' = 1
    /\ UNCHANGED <<entry, found, robots, port_open, connected, torque, transport,
                   entered_loop, startup_error, device_calls, smoothers>>
    /\ UNCHANGED notLifecycleVars

\* teleoperate_no_calib_standalone installs no SIGINT handler: Ctrl+C while
\* main() connects or enables torque raises KeyboardInterrupt (lines 383-384)
Interrupt ==
    /\ entry = "no_calib"
    /\ mpc \in {"connect", "loop_enable_torque"}
    /\ mpc' = CleanupPc(entry, robots)
    /\ idx' = 1
    /\ exit_code' = "0"
    /\ UNCHANGED <<entry, found, robots, port_open, connected, torque, transport,
                   entered_loop, startup_error, device_calls, smoothers>>
    /\ UNCHANGED notLifecycleVars

\* FollowerTeleop.shutdown lines 546-547, LeaderTeleop.shutdown lines
\* 460-472: unsubscribe_all when self.pubnub is set; an exception of
\* unsubscribe_all leaves shutdown
Unsubscribe ==
    /\ mpc = "unsubscribe"
    /\ LET after == IF robots = <<>> THEN "exit"
                    ELSE IF entry = "follower_remote" THEN "disable_torque"
                    ELSE "disconnect"
       IN  IF transport = "none"
           THEN /\ mpc' = after
                /\ UNCHANGED <<transport, device_calls, exit_code>>
           ELSE /\ device_calls' = Append(device_calls, Call("unsubscribe_all", ""))
                /\ \E raised \in BOOLEAN :
                     IF raised
                     THEN /\ mpc' = "exit"
                          /\ exit_code' = "raised"
                          /\ UNCHANGED transport
                     ELSE /\ mpc' = after
                          /\ transport' = "unsubscribed"
                          /\ UNCHANGED exit_code
    /\ idx' = 1
    /\ UNCHANGED <<entry, found, robots, port_open, connected, torque,
                   entered_loop, startup_error, smoothers>>
    /\ UNCHANGED notLifecycleVars

\* FollowerTeleop.shutdown lines 551-556, multi_arms main lines 757-762:
\* disable_torque on the next controller when it is connected, exceptions
\* caught
DisableTorque ==
    /\ mpc = "disable_torque"
    /\ LET r == robots[idx]
       IN  IF connected[r]
           THEN /\ device_calls' = Append(device_calls, Call("disable_torque", r))
                /\ \E outcome \in {"ok", "comm_failed", "raised"} :
                     torque' = [torque EXCEPT ![r] = IF outcome = "ok" THEN FALSE ELSE @]
           ELSE UNCHANGED <<device_calls, torque>>
    /\ IF idx < Len(robots)
       THEN mpc' = "disable_torque" /\ idx' = idx + 1
       ELSE mpc' = "disconnect" /\ idx' = 1
    /\ UNCHANGED <<entry, found, robots, port_open, connected, transport,
                   entered_loop, startup_error, exit_code, smoothers>>
    /\ UNCHANGED notLifecycleVars

\* SO101Controller.disconnect on the next controller, exceptions caught
Disconnect ==
    /\ mpc = "disconnect"
    /\ LET r == robots[idx]
       IN  /\ device_calls' = Append(device_calls, Call("disconnect", r))
           /\ \E raised \in BOOLEAN :
                /\ raised => port_open[r]
                /\ IF raised
                   THEN UNCHANGED <<port_open, connected>>
                   ELSE /\ port_open' = [port_open EXCEPT ![r] = FALSE]
                        /\ connected' = [connected EXCEPT ![r] = FALSE]
    /\ IF idx < Len(robots)
       THEN mpc' = "disconnect" /\ idx' = idx + 1
       ELSE mpc' = "exit" /\ idx' = 1
    /\ UNCHANGED <<entry, found, robots, torque, transport, entered_loop,
                   startup_error, exit_code, smoothers>>
    /\ UNCHANGED notLifecycleVars

InitLifecycle ==
    /\ now = 0
    /\ shutdown_requested = FALSE
    /\ latest_data = None
    /\ last_sequence = 0
    /\ received_count = 0
    /\ dropped_count = 0
    /\ pc = "poll"
    /\ smoothers = <<>>
    /\ goal = [f \in FollowerIds |-> <<>>]
    /\ status_channel = {}
    /\ applied = [d \in 1..MaxDeliveries |-> 0]
    /\ last_written = {}
    /\ applied_after_stop = 0
    /\ delivered = <<>>
    /\ SmootherStart("PositionSmoother")
    /\ entry \in Entries
    /\ mpc = IF entry \in Remote THEN "setup_pubnub" ELSE "detect"
    /\ idx = 1
    /\ found = NotDetected
    /\ robots = <<>>
    /\ port_open = [r \in RobotIds |-> FALSE]
    /\ connected = [r \in RobotIds |-> FALSE]
    /\ torque = [r \in RobotIds |-> FALSE]
    /\ transport = "none"
    /\ entered_loop = FALSE
    /\ startup_error = FALSE
    /\ exit_code = "running"
    /\ device_calls = <<>>
    /\ ZmqStreaming
    /\ MappingStart("leader_remote")
    /\ CalibStart(0)
    /\ MonitorStart("pubnub")
    /\ wr_call = NoCall
    /\ ConvergeStart
    /\ RetryStart
    /\ FreshLimiter
    /\ WrapperStart([state |-> "missing"])
    /\ LeaderLoopStart
    /\ DetectStart("multi_arms", <<>>)

NextLifecycle ==
    \/ SetupPubnub
    \/ AutoDetect
    \/ UseGivenPorts
    \/ Connect
    \/ EnableTorque
    \/ LoopEnableTorque
    \/ LoopExit
    \/ Interrupt
    \/ Unsubscribe
    \/ DisableTorque
    \/ Disconnect

SpecLifecycle == InitLifecycle /\ [][NextLifecycle]_vars

(* Properties of start-up and clean-up *)

\* the call the step appends to device_calls
CallMade(op) ==
    /\ Len(device_calls') = Len(device_calls) + 1
    /\ device_calls'[Len(device_calls')].op = op

\* op has been called on robot r
Called(op, r) == \E j \in DOMAIN device_calls : device_calls[j] = Call(op, r)

\* C3: when FollowerTeleop.shutdown calls unsubscribe_all, and when it
\* disconnects a follower, disable_torque has already been called on every
\* connected follower
C3_TorqueOffBeforeUnsubscribeAndClose ==
    [][ (entry = "follower_remote"
           /\ (CallMade("unsubscribe_all") \/ CallMade("disconnect"))) =>
          \A i \in DOMAIN robots :
              connected[robots[i]] => Called("disable_torque", robots[i]) ]_vars

\* C4: in the follower, the multi-arm and the no-calibration program, when
\* main() disconnects a follower on which it called enable_torque, it has
\* called disable_torque on that follower before
C4_TorqueOffBeforeClose ==
    [][ (entry \in {"follower_remote", "multi_arms", "no_calib"}
           /\ CallMade("disconnect")) =>
          LET r == device_calls'[Len(device_calls')].robot
          IN  (IsFollower(r) /\ Called("enable_torque", r)) =>
                  Called("disable_torque", r) ]_vars

\* C10: in the follower and the leader program, once auto-detection has
\* found a number of devices other than two, or a connect or a torque
\* enable of the connect phase has raised, teleoperation_loop has not been
\* and is never entered, and main() is in or past shutdown
C10_ConnectingFailsClosed ==
    (/\ entry \in Remote
     /\ \/ startup_error
        \/ /\ found # NotDetected
           /\ (IF entry = "follower_remote" THEN found.followers
               ELSE found.leaders) # 2) =>
        /\ ~entered_loop
        /\ mpc \in {"unsubscribe", "disable_torque", "disconnect", "exit"}

\* the follower program connected Follower1 and enabled its torque, a later
\* connect-phase call raised, and main() has run shutdown to the end
\* without entering teleoperation_loop
C10_StartupAbortedAfterFirstFollower ==
    /\ entry = "follower_remote"
    /\ startup_error
    /\ Called("enable_torque", "Follower1")
    /\ Called("disconnect", "Follower2")
    /\ ~entered_loop
    /\ mpc = "exit"

\* C12: when main() of the follower has left FollowerTeleop.shutdown, no
\* exception of a shutdown step has escaped it, disconnect has been called
\* on every follower, and disable_torque on every follower whose torque was
\* enabled, whichever single steps raised
C12_ShutdownStepErrorsContained ==
    (entry = "follower_remote" /\ mpc = "exit") =>
        /\ exit_code # "raised"
        /\ \A i \in DOMAIN robots :
              /\ Called("disconnect", robots[i])
              /\ Called("enable_torque", robots[i]) =>
                    Called("disable_torque", robots[i])

----------------------------------------------------------------------------
(* The follower in Streaming: connect_followers has returned *)

Init ==
    /\ now = 0
    /\ shutdown_requested = FALSE
    /\ latest_data = None
    /\ last_sequence = 0
    /\ received_count = 0
    /\ dropped_count = 0
    /\ pc = "poll"
    /\ smoothers = [f \in FollowerIds |-> <<>>]
    /\ goal = [f \in FollowerIds |-> <<>>]
    /\ status_channel = {}
    /\ applied = [d \in 1..MaxDeliveries |-> 0]
    /\ last_written = {}
    /\ applied_after_stop = 0
    /\ delivered = <<>>
    /\ SmootherStart("PositionSmoother")
    /\ Streaming
    /\ ZmqStreaming
    /\ MappingStart("leader_remote")
    /\ CalibStart(0)
    /\ MonitorStart("pubnub")
    /\ wr_call = NoCall
    /\ ConvergeStart
    /\ RetryStart
    /\ FreshLimiter
    /\ WrapperStart([state |-> "missing"])
    /\ LeaderLoopStart
    /\ DetectStart("multi_arms", <<>>)

Next ==
    \/ Tick
    \/ Deliver
    \/ SignalHandler
    \/ LoopPoll
    \/ LoopApply
    \/ LoopClear

Spec == Init /\ [][Next]_vars

----------------------------------------------------------------------------
(* Properties of the follower in Streaming *)

\* the step of teleoperation_loop that runs apply_positions
ApplyStep == pc = "apply" /\ pc' = "clear"

\* the age, at that step, of the frame apply_positions is handed
AgeAtApply == now - latest_data.frame.timestamp

\* C1: apply_positions drops a frame older than MAX_LATENCY_MS entirely: it
\* writes to no follower and leaves every smoother and every goal position
\* as it was; a frame of age at most MAX_LATENCY_MS passes the gate: every
\* follower a key of the frame resolves to is written, with every motor of
\* the frame in its smoother
C1_StalenessGate ==
    [][ ApplyStep =>
          /\ AgeAtApply > MAX_LATENCY_MS =>
                /\ last_written' = {}
                /\ smoothers' = smoothers
                /\ goal' = goal
                /\ status_channel' = status_channel
          /\ AgeAtApply <= MAX_LATENCY_MS =>
                LET targets == Targets(latest_data.frame.positions)
                IN  /\ last_written' = DOMAIN targets
                    /\ \A f \in DOMAIN targets :
                          /\ DOMAIN targets[f] \subseteq DOMAIN smoothers'[f]
                          /\ DOMAIN targets[f] \subseteq DOMAIN goal'[f] ]_vars

\* a frame with positions for a follower, 201 ms old, has gone through
\* apply_positions after an earlier frame was applied, and the smoothers
\* still hold what the earlier frame left
C1_StaleFrameDropped ==
    /\ pc = "clear"
    /\ latest_data # None
    /\ latest_data.did = 2
    /\ applied[1] = 1
    /\ applied[2] = 1
    /\ now - latest_data.frame.timestamp = MAX_LATENCY_MS + 1
    /\ DOMAIN Targets(latest_data.frame.positions) # {}
    /\ last_written = {}
    /\ \E f \in FollowerIds : smoothers[f] # <<>>

\* C2: every frame LeaderTeleop.publish_positions builds that is not stale
\* and carries positions for follower F makes apply_positions write the
\* smoothed positions to follower F
C2_LeaderFrameReachesFollower ==
    [][ (ApplyStep /\ latest_data.frame.origin = "leader"
                   /\ AgeAtApply <= MAX_LATENCY_MS) =>
          \A F \in DOMAIN latest_data.frame.positions :
              /\ F \in last_written'
              /\ \A s \in DOMAIN latest_data.frame.positions[F] :
                    IntOfMotorStr(s) \in DOMAIN goal'[F] ]_vars

\* C6: the loop never clears the slot while it holds a frame that has not
\* gone through apply_positions: a frame that arrives while an earlier one
\* is applied stays for a later poll
C6_NoFrameClearedUnprocessed ==
    [][ (pc = "clear" /\ pc' = "poll") => applied[latest_data.did] >= 1 ]_vars

\* C7: apply_positions runs at most once on each delivered frame
C7_AppliedAtMostOnce == \A d \in DOMAIN applied : applied[d] <= 1

\* two frames were delivered and each went through apply_positions, the
\* slot is empty again and the loop polls
C7_TwoFramesEachAppliedOnce ==
    /\ received_count = 2
    /\ applied[1] = 1
    /\ applied[2] = 1
    /\ latest_data = None
    /\ pc = "poll"

----------------------------------------------------------------------------
(* SpecShutdown: the follower from Streaming to the exit of main(): the
   control loop as in Spec, then FollowerTeleop.shutdown.  The main thread
   is scheduled: every call it makes returns or raises *)

\* teleoperation_loop has left its while loop on the shutdown flag (lines
\* 504, 526-527) and main() goes on to its finally clause (lines 597-598)
LoopReturn ==
    /\ pc = "stopped"
    /\ mpc = "loop"
    /\ mpc' = CleanupPc(entry, robots)
    /\ idx' = 1
    /\ exit_code' = "0"
    /\ UNCHANGED <<entry, found, robots, port_open, connected, torque, transport,
                   entered_loop, startup_error, device_calls, smoothers>>
    /\ UNCHANGED notLifecycleVars

\* the steps of the main thread
MainThread ==
    \/ LoopPoll
    \/ LoopApply
    \/ LoopClear
    \/ LoopReturn
    \/ Unsubscribe
    \/ DisableTorque
    \/ Disconnect

NextShutdown ==
    \/ Tick
    \/ Deliver
    \/ SignalHandler
    \/ MainThread

SpecShutdown == Init /\ [][NextShutdown]_vars /\ WF_vars(MainThread)

\* C11: once the shutdown flag is set the control loop starts no new
\* iteration, apply_positions runs at most once more, and shutdown then
\* disables torque on every connected follower before it unsubscribes and
\* unsubscribes before it disconnects a follower
C11_StopThenOrderedShutdown ==
    [][ /\ (shutdown_requested /\ pc = "poll") => pc' # "apply"
        /\ applied_after_stop' <= 1
        /\ CallMade("unsubscribe_all") =>
              \A i \in DOMAIN robots :
                  connected[robots[i]] => Called("disable_torque", robots[i])
        /\ CallMade("disconnect") => Called("unsubscribe_all", "") ]_vars

----------------------------------------------------------------------------
(* SpecMapping: the mapping of the leader program and of the multi-arm
   program from construction to the end of the loop *)

InitMapping ==
    /\ now = 0
    /\ shutdown_requested = FALSE
    /\ latest_data = None
    /\ last_sequence = 0
    /\ received_count = 0
    /\ dropped_count = 0
    /\ pc = "poll"
    /\ smoothers = [f \in FollowerIds |-> <<>>]
    /\ goal = [f \in FollowerIds |-> <<>>]
    /\ status_channel = {}
    /\ applied = [d \in 1..MaxDeliveries |-> 0]
    /\ last_written = {}
    /\ applied_after_stop = 0
    /\ delivered = <<>>
    /\ SmootherStart("PositionSmoother")
    /\ Streaming
    /\ ZmqStreaming
    /\ \E program \in MapPrograms : MappingStart(program)
    /\ CalibStart(0)
    /\ MonitorStart("pubnub")
    /\ wr_call = NoCall
    /\ ConvergeStart
    /\ RetryStart
    /\ FreshLimiter
    /\ WrapperStart([state |-> "missing"])
    /\ LeaderLoopStart
    /\ DetectStart("multi_arms", <<>>)

NextMapping ==
    \/ MapConnect
    \/ KeyPress
    \/ LoopSwitch
    \/ MapStop
    \/ SwitchCall

SpecMapping == InitMapping /\ [][NextMapping]_vars

\* the items of d with the two follower assignments exchanged
Swapped(d) == << <<d[1][1], d[2][2]>>, <<d[2][1], d[1][2]>> >>

\* C13: on a mapping of two leaders and two followers one switch exchanges
\* the two follower assignments, so {L1:F1, L2:F2} becomes {L1:F2, L2:F1},
\* and a second switch gives back the mapping the first one started from
C13_SwitchIsItsOwnInverse ==
    (switch_call.n > 0 /\ Len(switch_call.before) = 2) =>
        /\ switch_call.once = Returned(Swapped(switch_call.before))
        /\ switch_call.twice = Returned(switch_call.before)
        /\ switch_call.before = InitialDict =>
              switch_call.once.mapping =
                << <<"Leader1", "Follower2">>, <<"Leader2", "Follower1">> >>

\* the switch of the multi-arm program was applied to {L1:F1, L2:F2}: it
\* gave {L1:F2, L2:F1}, and applied to that the first mapping again
C13_SwitchedAndBack ==
    /\ switch_call.n > 0
    /\ map_program = "multi_arms"
    /\ switch_call.before = InitialDict
    /\ switch_call.once.mapping =
          << <<"Leader1", "Follower2">>, <<"Leader2", "Follower1">> >>
    /\ switch_call.twice.mapping = InitialDict

\* d maps every one of leaders to one of followers, every follower taken
\* once
IsBijection(d, leaders, followers) ==
    /\ Range(Keys(d)) = leaders
    /\ Len(d) = Cardinality(leaders)
    /\ Range(Values(d)) = followers
    /\ Len(d) = Cardinality(followers)

\* C14: once connect has succeeded the mapping is a bijection from the
\* connected leaders onto the connected followers, after the initial
\* assignment, after create_random_mapping and after every switch; and the
\* mapping changes only in a loop step that takes up a switch request of
\* the operator
C14_MappingStaysBijection ==
    [][ /\ map_pc' \in {"loop", "done"} =>
              IsBijection(current_mapping', Range(map_leaders'), ConnectedFollowers')
        /\ (map_pc = "loop" /\ current_mapping' # current_mapping) =>
              (switch_requested /\ ~switch_requested') ]_vars

\* the leader program has switched its mapping on a request of the
\* operator and runs on with {L1:F2, L2:F1}
C14_LeaderRunsSwitched ==
    /\ map_program = "leader_remote"
    /\ map_pc = "loop"
    /\ ~switch_requested
    /\ current_mapping = << <<"Leader1", "Follower2">>, <<"Leader2", "Follower1">> >>

\* C15: applied to a mapping that does not have exactly two entries, switch
\* raises nothing and leaves the mapping as it is
C15_SwitchRejectedUnlessTwoEntries ==
    (switch_call.n > 0 /\ Len(switch_call.before) # 2) =>
        switch_call.once = Returned(switch_call.before)

\* C30: no switch request is lost or merged: whenever the loop has no
\* request pending, it has switched the mapping as many times as the
\* operator asked for
C30_EverySwitchRequestPerformed ==
    (map_pc = "loop" /\ ~switch_requested) => switch_performed = switch_issued

----------------------------------------------------------------------------
(* SpecCalib: set_middle_position from its call to its return, on motors
   that carry an earlier calibration or none *)

\* Homing_Offset register values before the run: none, and -100
EarlierOffsets == {0, EncodedOffset(-100)}

InitCalib ==
    /\ now = 0
    /\ shutdown_requested = FALSE
    /\ latest_data = None
    /\ last_sequence = 0
    /\ received_count = 0
    /\ dropped_count = 0
    /\ pc = "poll"
    /\ smoothers = [f \in FollowerIds |-> <<>>]
    /\ goal = [f \in FollowerIds |-> <<>>]
    /\ status_channel = {}
    /\ applied = [d \in 1..MaxDeliveries |-> 0]
    /\ last_written = {}
    /\ applied_after_stop = 0
    /\ delivered = <<>>
    /\ SmootherStart("PositionSmoother")
    /\ Streaming
    /\ ZmqStreaming
    /\ MappingStart("leader_remote")
    /\ \E homing_offset \in EarlierOffsets : CalibStart(homing_offset)
    /\ MonitorStart("pubnub")
    /\ wr_call = NoCall
    /\ ConvergeStart
    /\ RetryStart
    /\ FreshLimiter
    /\ WrapperStart([state |-> "missing"])
    /\ LeaderLoopStart
    /\ DetectStart("multi_arms", <<>>)

NextCalib ==
    \/ CalDetectVoltage
    \/ CalDisableTorque
    \/ CalSetMode
    \/ CalReadPositions
    \/ CalResetMotor
    \/ CalCompute
    \/ CalWriteOffset
    \/ CalReturnTrue

SpecCalib == InitCalib /\ [][NextCalib]_vars

\* position of the first call of op in the log, 0 when there is none
FirstCall(op) ==
    IF \E i \in DOMAIN cal_log : cal_log[i].op = op
    THEN CHOOSE i \in DOMAIN cal_log :
            /\ cal_log[i].op = op
            /\ \A j \in 1..(i - 1) : cal_log[j].op # op
    ELSE 0

\* every call of op comes before every call of later
Precedes(op, later) ==
    \A i, j \in DOMAIN cal_log :
        (cal_log[i].op = op /\ cal_log[j].op = later) => i < j

\* C16: set_middle_position disables torque before it resets a motor,
\* resets every motor before it reads the raw positions, reads them before
\* it computes the offsets and computes before it writes an offset
C16_ResetBeforeRead ==
    /\ FirstCall("reset_calibration") > 0 =>
          (FirstCall("disable_torque") > 0
             /\ FirstCall("disable_torque") < FirstCall("reset_calibration"))
    /\ Precedes("reset_calibration", "read_positions")
    /\ Precedes("read_positions", "calculate_homing_offsets")
    /\ Precedes("calculate_homing_offsets", "write_homing_offsets")

\* C17: write_homing_offsets hands no offset of magnitude above 2^11 - 1 to
\* the register write, for the offsets calculate_homing_offsets makes of a
\* raw position in 0 .. resolution - 1
C17_NoOverflowingOffsetSent ==
    \A i \in DOMAIN offset_writes :
        Abs(offset_writes[i].offset) <= 2^SignBit - 1

\* the homing offset of motor m was written with success
OffsetWritten(m) ==
    \E i \in DOMAIN offset_writes :
        offset_writes[i].motor_id = m /\ offset_writes[i].success

\* C36: process_single_robot returns True only if read_positions gave
\* raw positions and the homing offset of every motor of the robot was
\* written successfully
C36_TrueOnlyIfAllOffsetsWritten ==
    cal_pc = "returned_true" =>
        /\ DOMAIN cal_positions # {}
        /\ \A m \in Range(MotorSeq) : OffsetWritten(m)

\* C21: when the read of the voltage register fails, set_middle_position
\* chooses no Phase, neither that of a leader (76) nor that of a follower
\* (12): no role is assigned by guess
C21_NoRoleWithoutVoltage ==
    voltage_read.state = "raised" => phase_value \notin {76, 12}

----------------------------------------------------------------------------
(* SpecMonitor: a leader publishing, its acks arriving, its display thread
   asking for the statistics *)

InitMonitor ==
    /\ now = 0
    /\ shutdown_requested = FALSE
    /\ latest_data = None
    /\ last_sequence = 0
    /\ received_count = 0
    /\ dropped_count = 0
    /\ pc = "poll"
    /\ smoothers = [f \in FollowerIds |-> <<>>]
    /\ goal = [f \in FollowerIds |-> <<>>]
    /\ status_channel = {}
    /\ applied = [d \in 1..MaxDeliveries |-> 0]
    /\ last_written = {}
    /\ applied_after_stop = 0
    /\ delivered = <<>>
    /\ SmootherStart("PositionSmoother")
    /\ Streaming
    /\ ZmqStreaming
    /\ MappingStart("leader_remote")
    /\ CalibStart(0)
    /\ \E program \in MonPrograms : MonitorStart(program)
    /\ wr_call = NoCall
    /\ ConvergeStart
    /\ RetryStart
    /\ FreshLimiter
    /\ WrapperStart([state |-> "missing"])
    /\ LeaderLoopStart
    /\ DetectStart("multi_arms", <<>>)

NextMonitor ==
    \/ MonPublish
    \/ MonMessageSent
    \/ MonAck
    \/ MonGetStats

SpecMonitor == InitMonitor /\ [][NextMonitor]_vars

\* the fraction f has the value num/den
IsValue(f, num, den) == f.num * den = num * f.den

\* C18: get_stats reports packet_loss = 1 - acked/expected_acks, with
\* expected_acks = sent // N, whenever expected_acks > 0, also before the
\* first ack; with nothing sent it reports loss 0 and latency 0
C18_PacketLossReported ==
    stats # None =>
        LET expected_acks == stats.sent \div AckEvery(mon_program)
        IN  /\ expected_acks > 0 =>
                  IsValue(stats.packet_loss, expected_acks - stats.acked, expected_acks)
            /\ stats.sent = 0 =>
                  /\ IsValue(stats.packet_loss, 0, 1)
                  /\ IsValue(stats.avg_latency, 0, 1)
                  /\ stats.max_latency = 0

\* the fraction f lies in [0, 1]
InUnitInterval(f) == f.den > 0 /\ 0 <= f.num /\ f.num <= f.den

\* C32: in every state the PubNub leader reaches ack_count <= sent_count
\* <= sequence; the frames publish_positions builds are numbered 1, 2, 3,
\* ... so that every frame that left carries a number higher than every
\* frame that left before it; and get_stats reports a packet loss in
\* [0, 1].  Acks may come before message_sent has recorded the send, more
\* than once, or for a sequence never sent, and a publish may raise
C32_CountersAndSequenceOrdered ==
    /\ mon_sequence = 0
    /\ [](mon_program = "pubnub" =>
            /\ ack_count <= sent_count
            /\ sent_count <= mon_sequence
            /\ on_wire \subseteq 1..mon_sequence
            /\ stats # None => InUnitInterval(stats.packet_loss))
    /\ [][mon_program = "pubnub" =>
            /\ mon_sequence' \in {mon_sequence, mon_sequence + 1}
            /\ \A sequence \in on_wire' \ on_wire :
                  /\ sequence = mon_sequence'
                  /\ \A earlier \in on_wire : earlier < sequence]_vars

\* the first publish raised, two later frames were sent and recorded, the
\* ack of one of them came twice and get_stats then reported loss 1/2
C32_DuplicateAckAfterFailedPublish ==
    /\ mon_program = "pubnub"
    /\ mon_sequence = 3
    /\ 1 \notin on_wire
    /\ sent_count = 2
    /\ ack_count = 1
    /\ ack_call.n = 2
    /\ ack_call.sequence \in on_wire
    /\ ~ack_call.pending
    /\ stats # None
    /\ IsValue(stats.packet_loss, 1, 2)

\* C29: an ack that is a duplicate, or that names a sequence the leader
\* holds no send record for, is ignored: StatusListener.message raises no
\* error and sent_count, ack_count and the latency samples stay as they
\* were
C29_StrayAckIgnored ==
    (ack_call.n > 0 /\ ~ack_call.pending) =>
        /\ ack_call.raised = ""
        /\ ack_call.unchanged

----------------------------------------------------------------------------
(* SpecDetect: auto_detect_and_identify_ports of the two standalone programs
   over every answer of up to MaxPorts ports *)

InitDetect ==
    /\ now = 0
    /\ shutdown_requested = FALSE
    /\ latest_data = None
    /\ last_sequence = 0
    /\ received_count = 0
    /\ dropped_count = 0
    /\ pc = "poll"
    /\ smoothers = [f \in FollowerIds |-> <<>>]
    /\ goal = [f \in FollowerIds |-> <<>>]
    /\ status_channel = {}
    /\ applied = [d \in 1..MaxDeliveries |-> 0]
    /\ last_written = {}
    /\ applied_after_stop = 0
    /\ delivered = <<>>
    /\ SmootherStart("PositionSmoother")
    /\ Streaming
    /\ ZmqStreaming
    /\ MappingStart("leader_remote")
    /\ CalibStart(0)
    /\ MonitorStart("pubnub")
    /\ wr_call = NoCall
    /\ ConvergeStart
    /\ RetryStart
    /\ FreshLimiter
    /\ WrapperStart([state |-> "missing"])
    /\ LeaderLoopStart
    /\ \E program \in DetectPrograms, ports \in PortReads(MaxPorts) :
         DetectStart(program, ports)

NextDetect ==
    \/ DetFindPorts
    \/ DetIdentify
    \/ DetCheck

SpecDetect == InitDetect /\ [][NextDetect]_vars

\* C22: under the threshold policy of teleoperate_multi_arms_standalone.py
\* a device whose voltage was read is a leader iff the voltage, the register
\* value over 10, is strictly below 9.0 V and a follower otherwise, 9.0 V
\* included; leaders go to leader_ports and followers to follower_ports
C22_ThresholdClassification ==
    det_program = "multi_arms" =>
        \A k \in DOMAIN det_results :
            LET r == det_results[k]
            IN  /\ r.is_leader <=> r.raw < 9 * 10
                /\ r.is_leader <=> r.port \in Range(leader_ports)
                /\ ~r.is_leader <=> r.port \in Range(follower_ports)

\* detection returned with a device at 8.9 V among the leaders and a device
\* at exactly 9.0 V among the followers
C22_NineVoltsIsFollower ==
    /\ det_program = "multi_arms"
    /\ det_pc = "returned"
    /\ \E k \in DOMAIN det_results :
         /\ det_results[k].raw = 90
         /\ det_results[k].port \in Range(follower_ports)
    /\ \E k \in DOMAIN det_results :
         /\ det_results[k].raw = 89
         /\ det_results[k].port \in Range(leader_ports)

\* C23: under the band policy of teleoperate_no_calib_standalone.py a device
\* is a leader iff its voltage is within 4.5 V and 5.5 V, both included, and
\* a follower only if its voltage is in the high band of 11 V to 13 V; a
\* voltage in neither band is never a follower
C23_BandClassification ==
    det_program = "no_calib" =>
        \A k \in DOMAIN det_results :
            LET r == det_results[k]
            IN  /\ r.is_leader <=> (45 <= r.raw /\ r.raw <= 55)
                /\ ~r.is_leader => (110 <= r.raw /\ r.raw <= 130)

----------------------------------------------------------------------------
(* SpecLeader: the loop of LeaderTeleop reading its two leaders and
   publishing, every read and every publish free to fail *)

InitLeader == Init

NextLeader ==
    \/ LeaderTick
    \/ LeaderStop

SpecLeader == InitLeader /\ [][NextLeader]_vars

\* the frame of the latest iteration has a value for motor m of leader l
InFrame(l, m) ==
    /\ lead_frame.handed
    /\ lead_frame.mapping[l] \in DOMAIN lead_frame.positions
    /\ StrOfMotor(m) \in DOMAIN lead_frame.positions[lead_frame.mapping[l]]

\* C24: a position read that fails on one channel, by its status or by an
\* exception, leaves only that channel out of the frame: every channel
\* read with success is in the frame handed to publish with the value
\* read, and a failed read never ends the loop
C24_FailedChannelOmitted ==
    lead_ticks > 0 =>
        /\ \A l \in LeaderIds, m \in MotorIds :
              IF lead_outcomes[l][m].ok
              THEN /\ InFrame(l, m)
                   /\ lead_frame.positions[lead_frame.mapping[l]][StrOfMotor(m)] =
                         lead_outcomes[l][m].position
              ELSE ~InFrame(l, m)
        /\ lead_pc = "aborted" => (lead_frame.handed /\ lead_frame.publish = "raised")

\* two iterations ran and a read failed in both; in the second one motor
\* failed by its status and one by an exception, the other two are in the
\* frame that was published, and the loop goes on
C24_LoopGoesOnAfterFailedReads ==
    /\ lead_ticks = 2
    /\ lead_failures = 2
    /\ lead_pc = "loop"
    /\ ~lead_outcomes["Leader1"][1].ok /\ lead_outcomes["Leader1"][1].why = "status"
    /\ ~lead_outcomes["Leader2"][2].ok /\ lead_outcomes["Leader2"][2].why = "raised"
    /\ lead_frame.handed /\ lead_frame.publish = "ok"
    /\ InFrame("Leader1", 2)
    /\ InFrame("Leader2", 1)

----------------------------------------------------------------------------
(* SpecWrapper: an ARXArmWrapper created over every calibration file of
   CalibrationFiles, connected, its conversions applied to TicPositions *)

InitWrapper ==
    /\ now = 0
    /\ shutdown_requested = FALSE
    /\ latest_data = None
    /\ last_sequence = 0
    /\ received_count = 0
    /\ dropped_count = 0
    /\ pc = "poll"
    /\ smoothers = [f \in FollowerIds |-> <<>>]
    /\ goal = [f \in FollowerIds |-> <<>>]
    /\ status_channel = {}
    /\ applied = [d \in 1..MaxDeliveries |-> 0]
    /\ last_written = {}
    /\ applied_after_stop = 0
    /\ delivered = <<>>
    /\ SmootherStart("PositionSmoother")
    /\ Streaming
    /\ ZmqStreaming
    /\ MappingStart("leader_remote")
    /\ CalibStart(0)
    /\ MonitorStart("pubnub")
    /\ wr_call = NoCall
    /\ ConvergeStart
    /\ RetryStart
    /\ FreshLimiter
    /\ DetectStart("multi_arms", <<>>)
    /\ LeaderLoopStart
    /\ \E file \in CalibrationFiles : WrapperStart(file)

NextWrapper ==
    \/ WrapperInit
    \/ WrapperConnect
    \/ ConvertAndBack

SpecWrapper == InitWrapper /\ [][NextWrapper]_vars

\* the file gives motor m no home position the loader can use
LacksEntry(file, m) ==
    \/ file.state # "ok"
    \/ m \notin file.motor_ids
    \/ m \notin DOMAIN file.home_positions

\* C25: _load_calibration never raises; with the file missing or
\* unreadable it returns the defaults, home 2048 for every motor and no
\* inverted motor, and a motor the file has no entry for is used with home
\* 2048
C25_CalibrationFallsBack ==
    /\ wrap_pc # "load_raised"
    /\ wrap_pc # "new" =>
          /\ calibration_file.state # "ok" =>
                /\ servo_centers = default_centers
                /\ wrap_invert_motors = {}
          /\ \A m \in WrapperMotors :
                LacksEntry(calibration_file, m) => CenterOf(servo_centers, m) = 2048

\* the wrapper is connected after loading a readable file that has a home
\* position for motor 1 only, and motor 2 is used with home 2048
C25_ConnectedWithMotorLacking ==
    /\ wrap_pc = "connected"
    /\ calibration_file.state = "ok"
    /\ calibration_file.unparsable = {}
    /\ DOMAIN calibration_file.home_positions = {1}
    /\ calibration_file.motor_ids = {1, 2}
    /\ servo_centers[1] = 1000
    /\ CenterOf(servo_centers, 2) = 2048

\* C26: a tic converted to radians with the formula of write_joint_tics
\* and back with the formula of read_joint_tics comes back within 1 of
\* itself, for every home value, on inverted and on other channels
C26_RoundTripWithinOne ==
    conv_call.made => Abs(conv_call.back - conv_call.tic_pos) <= 1

\* tic 13 of an inverted motor with home 1000 came back as 12
C26_InvertedComesBackOneLess ==
    /\ conv_call.made
    /\ conv_call.inverted
    /\ conv_call.center = 1000
    /\ conv_call.tic_pos = 13
    /\ conv_call.back = 12

----------------------------------------------------------------------------
(* SpecSmoother: one PositionSmoother by itself, smooth called with any
   motor and any target of TargetPositions *)

\* the smoother the calls go to
SmootherId == "Follower1"

\* PositionSmoother.smooth(motor_id, target_position)
SmoothCall ==
    /\ smoother_class = "PositionSmoother"
    /\ smooth_call.n < MaxSmoothCalls
    /\ \E motor_id \in MotorIds, target_position \in TargetPositions :
         LET current_positions == smoothers[SmootherId]
             first == motor_id \notin DOMAIN current_positions
         IN  \E returned \in Smooth(current_positions, motor_id, target_position) :
               /\ smoothers' = [smoothers EXCEPT
                                  ![SmootherId] = (motor_id :> returned) @@ @]
               /\ smooth_call' = [n |-> smooth_call.n + 1,
                                  motor_id |-> motor_id,
                                  target_position |-> target_position,
                                  first |-> first,
                                  repeated |->
                                     /\ smooth_call.n > 0
                                     /\ smooth_call.motor_id = motor_id
                                     /\ smooth_call.target_position = target_position,
                                  previous |-> IF first THEN target_position
                                               ELSE current_positions[motor_id],
                                  returned |-> returned]
    /\ UNCHANGED <<now, shutdown_requested, latest_data, last_sequence,
                   received_count, dropped_count, pc, goal, status_channel,
                   applied, last_written, applied_after_stop,
                   delivered>>
    /\ UNCHANGED <<smoother_class, arx_initialized, arx_positions, arx_call>>
    /\ UNCHANGED notSmootherVars

\* target arrays handed to ARXPositionSmoother.smooth, in ArxUnits
ArxTargets ==
    { [i \in ArxJoints |-> 0],
      [i \in ArxJoints |-> IF i = 1 THEN 625 ELSE -6250],
      [i \in ArxJoints |-> IF i = 2 THEN 3125 ELSE 1250] }

\* ARXPositionSmoother.smooth(target_positions)
ArxSmoothCall ==
    /\ smoother_class = "ARXPositionSmoother"
    /\ arx_call.n < MaxSmoothCalls
    /\ \E target_positions \in ArxTargets :
         LET returned == ArxSmooth(arx_initialized, arx_positions, target_positions)
         IN  /\ arx_positions' = returned
             /\ arx_initialized' = TRUE
             /\ arx_call' = [n |-> arx_call.n + 1,
                             target_positions |-> target_positions,
                             first |-> ~arx_initialized,
                             previous |-> arx_positions,
                             returned |-> returned]
    /\ UNCHANGED <<now, shutdown_requested, latest_data, last_sequence,
                   received_count, dropped_count, pc, smoothers, goal, status_channel,
                   applied, last_written, applied_after_stop,
                   delivered>>
    /\ UNCHANGED <<smooth_call, smoother_class>>
    /\ UNCHANGED notSmootherVars

InitSmoother ==
    /\ now = 0
    /\ shutdown_requested = FALSE
    /\ latest_data = None
    /\ last_sequence = 0
    /\ received_count = 0
    /\ dropped_count = 0
    /\ pc = "poll"
    /\ smoothers = [f \in FollowerIds |-> <<>>]
    /\ goal = [f \in FollowerIds |-> <<>>]
    /\ status_channel = {}
    /\ applied = [d \in 1..MaxDeliveries |-> 0]
    /\ last_written = {}
    /\ applied_after_stop = 0
    /\ delivered = <<>>
    /\ \E class \in {"PositionSmoother", "ARXPositionSmoother"} : SmootherStart(class)
    /\ Streaming
    /\ ZmqStreaming
    /\ MappingStart("leader_remote")
    /\ CalibStart(0)
    /\ MonitorStart("pubnub")
    /\ wr_call = NoCall
    /\ ConvergeStart
    /\ RetryStart
    /\ FreshLimiter
    /\ WrapperStart([state |-> "missing"])
    /\ LeaderLoopStart
    /\ DetectStart("multi_arms", <<>>)

NextSmoother ==
    \/ SmoothCall
    \/ ArxSmoothCall

SpecSmoother == InitSmoother /\ [][NextSmoother]_vars

\* C5: the value a smooth call returns for a motor lies within
\* MAX_POSITION_CHANGE of the value the previous call returned for that
\* motor, whatever the target
C5_StepWithinMaxChange ==
    (smooth_call.n > 0 /\ ~smooth_call.first) =>
        Abs(smooth_call.returned - smooth_call.previous) <= MAX_POSITION_CHANGE

\* a call whose target lies 4095 away from the previous value returned a
\* value exactly MAX_POSITION_CHANGE from it
C5_LimitReached ==
    /\ smooth_call.n > 0
    /\ ~smooth_call.first
    /\ Abs(smooth_call.target_position - smooth_call.previous) = 4095
    /\ Abs(smooth_call.returned - smooth_call.previous) = MAX_POSITION_CHANGE

----------------------------------------------------------------------------
(* SpecZmq: the ZMQ follower in its loop; the variables of the other
   programs keep their initial values *)

InitZmq == Init

NextZmq ==
    \/ ZmqArrive
    \/ ZmqPoll
    \/ Tick
    \/ SignalHandler

SpecZmq == InitZmq /\ [][NextZmq]_vars

\* C8: every frame whose commands SingleFollowerTeleop.apply_positions
\* issued to the arm and the drivetrain was at most MAX_LATENCY_MS old when
\* it was applied
C8_ZmqNeverAppliesStale ==
    \A i \in DOMAIN z_applied : z_applied[i].latency <= MAX_LATENCY_MS

\* C9: a poll of the ZMQ follower that applies a frame applies the frame
\* that arrived last and leaves no older frame in the socket
C9_ZmqAppliesOnlyNewest ==
    [][ Len(z_applied') > Len(z_applied) =>
          /\ z_applied'[Len(z_applied')].sequence = zq[Len(zq)].sequence
          /\ zq' = <<>> ]_vars

\* C27: the joint commands of the ZMQ follower pass through
\* ARXPositionSmoother: after the first applied frame no joint command
\* differs from the one before by more than 0.1 rad, which is 65.17 units
\* of servo_to_radian_scale
C27_ArmCommandsSmoothed ==
    [][ (Len(z_applied') > Len(z_applied) /\ z_applied # <<>>) =>
          \A j \in ArmJoints : Abs(arm_positions'[j] - arm_positions[j]) <= 65 ]_vars

\* the joint positions a leader put in a frame, under whichever key
SentPositions(frame) ==
    IF "left_positions" \in DOMAIN frame THEN MotorPositions(frame.left_positions)
    ELSE MotorPositions(Get(frame, "positions", <<>>))

\* C28: the ZMQ follower commands a joint only when the frame it applies
\* has a value for it: a joint the leader put in the frame is commanded
\* that value, a joint absent from the frame keeps the command it had
C28_OnlyFrameChannelsCommanded ==
    [][ Len(z_applied') > Len(z_applied) =>
          \A j \in ArmJoints :
              IF j \in DOMAIN SentPositions(Head(zq))
              THEN arm_positions'[j] = SentPositions(Head(zq))[j] - servo_center
              ELSE arm_positions'[j] = arm_positions[j] ]_vars

\* C19: a call after the first one returns a value no farther from its
\* target than the value before the call and on the same side of the
\* target, so that under a constant target the value moves toward the
\* target call by call and never crosses it
C19_MovesTowardTarget ==
    (smooth_call.n > 0 /\ ~smooth_call.first) =>
        /\ Abs(smooth_call.target_position - smooth_call.returned) <=
              Abs(smooth_call.target_position - smooth_call.previous)
        /\ smooth_call.previous <= smooth_call.target_position =>
              smooth_call.returned <= smooth_call.target_position
        /\ smooth_call.previous >= smooth_call.target_position =>
              smooth_call.returned >= smooth_call.target_position

\* the target of the call before was given again for the same motor, and
\* the value moved from where that call left it to a value short of the
\* target
C19_SecondStepTowardTarget ==
    /\ smooth_call.n > 1
    /\ smooth_call.repeated
    /\ ~smooth_call.first
    /\ smooth_call.previous < smooth_call.returned
    /\ smooth_call.returned < smooth_call.target_position

\* C20: the first smooth call for a motor, and the first call of an
\* ARXPositionSmoother, returns the target as it is and stores it as the
\* current value, however far the target lies from any earlier value
C20_FirstCallReturnsTarget ==
    /\ (smooth_call.n > 0 /\ smooth_call.first) =>
          /\ smooth_call.returned = smooth_call.target_position
          /\ smoothers[SmootherId][smooth_call.motor_id] = smooth_call.target_position
    /\ (arx_call.n > 0 /\ arx_call.first) =>
          /\ arx_call.returned = arx_call.target_positions
          /\ arx_positions = arx_call.target_positions

\* the first call for motor 2 came after calls for motor 1 and returned
\* its target 65535
C20_FirstCallFarTarget ==
    /\ smooth_call.n > 1
    /\ smooth_call.first
    /\ smooth_call.motor_id = 2
    /\ smooth_call.target_position = 65535
    /\ smooth_call.returned = 65535
    /\ smoothers[SmootherId][2] = 65535

----------------------------------------------------------------------------
(* SpecListener: TelemetryListener.message of teleoperate_follower_remote.py
   alone, handed telemetry frames whose sequence numbers come in any order,
   as a transport that duplicates and reorders delivers them               *)

MaxListenerSeq == 3
MaxListenerDeliveries == 4

\* one leader frame under each sequence number a leader can have published
ListenerFrames ==
    { [f EXCEPT !.sequence = seq] :
        f \in { CHOOSE g \in LeaderFrames : TRUE }, seq \in 1..MaxListenerSeq }

\* the PubNub SDK calls message() once for each message it receives
ListenerMessage ==
    /\ received_count < MaxListenerDeliveries
    /\ \E data \in ListenerFrames \cup OtherMessages : Message(data)

InitListener == Init
NextListener == ListenerMessage
SpecListener == InitListener /\ [][NextListener]_vars

\* the highest sequence number delivered so far
HighestDelivered ==
    CHOOSE seq \in Range(delivered) : \A other \in Range(delivered) : other <= seq

\* the sequence numbers below the highest delivered that never arrived
NeverDelivered ==
    { seq \in 1..HighestDelivered : seq \notin Range(delivered) }

\* C31: under duplicated and reordered delivery dropped_count never
\* exceeds the number of sequence numbers below the highest one received
\* that were never delivered
C31_DroppedCountWithinGaps ==
    delivered # <<>> => dropped_count <= Cardinality(NeverDelivered)

----------------------------------------------------------------------------
(* SpecGripper: a fresh GripperForceLimiter and the updates it gets *)

InitGripper == Init
NextGripper == GripperUpdate
SpecGripper == InitGripper /\ [][NextGripper]_vars

\* the mean of |effort| over the window exceeds the clog threshold
MeanOfAbsHigh == grip_call.mean_of_abs.num > clog_force_threshold * grip_call.mean_of_abs.den

\* the mean of |effort| over the window is below the lower threshold
MeanOfAbsLow == grip_call.mean_of_abs.num < unclog_effort * grip_call.mean_of_abs.den

\* the command is toward opening
WantsToOpen ==
    grip_call.gripper_state.current_normalized_qpos <
        grip_call.gripper_state.target_normalized_qpos

\* C33: an update of a limiter that is not clogged leaves it clogged
\* exactly when the mean of |effort| over the window exceeds
\* clog_force_threshold and |current speed| is below clog_speed_threshold;
\* an update of a clogged limiter leaves it clogged unless the command is
\* toward opening or the averaged effort is below the lower threshold; and
\* an update that leaves the limiter clogged returns the adjusted position
C33_CloggedEntryExitAndReturn ==
    grip_call.n > 0 =>
        /\ ~grip_call.was_clogged =>
              (is_clogged <=>
                  /\ MeanOfAbsHigh
                  /\ Abs(grip_call.gripper_state.current_qvel) < clog_speed_threshold)
        /\ grip_call.was_clogged =>
              (is_clogged <=> ~(WantsToOpen \/ MeanOfAbsLow))
        /\ is_clogged =>
              /\ grip_call.outcome = "adjusted"
              /\ grip_call.returned = gripper_adjusted_qpos

\* C34: update raises nothing, whatever gripper states a fresh limiter is
\* given: when it takes the clogged branch _gripper_adjusted_qpos holds a
\* position
C34_UpdateNeverFails ==
    grip_call.n > 0 => grip_call.outcome # "TypeError"

----------------------------------------------------------------------------
(* SpecRetry: reset_calibration and then write_homing_offsets, write by
   write.  The thread that runs them is not held up: every write2ByteTxRx
   returns or raises within the timeout of the port                        *)

InitRetry == Init
NextRetry == NvResetWrite \/ NvOffsetWrite
SpecRetry == InitRetry /\ [][NextRetry]_vars /\ WF_vars(NextRetry)

\* where the two procedures are: the procedure, the motor, the register
NvPosition == <<nv_pc, nv_idx, nv_register>>

\* C35: reset_calibration and write_homing_offsets call write2ByteTxRx at
\* most 3 times for a register of a motor; the write after two failed
\* attempts, failed or not, takes the procedure to the next register or
\* motor; and the two procedures come to their end
C35_AtMostThreeAttempts ==
    /\ [](\A w \in NvWrites : nv_attempts[w] <= 3)
    /\ [][(nv_attempt = 2 /\ nv_attempts' # nv_attempts /\ nv_pc' # "raised")
            => /\ NvPosition' # NvPosition
               /\ nv_attempt' = 0]_vars
    /\ <>(nv_pc \in {"done", "raised"})

\* the procedures ended after three failed writes of a limit register and
\* three failed writes of a homing offset, the other writes done at once
C35_GaveUpTwiceAndEnded ==
    /\ nv_pc = "done"
    /\ nv_attempts[[proc |-> "reset", motor |-> 1, register |-> "Min_Position_Limit"]] = 3
    /\ nv_attempts[[proc |-> "write", motor |-> 2, register |-> "Homing_Offset"]] = 3
    /\ nv_attempts[[proc |-> "reset", motor |-> 2, register |-> "Homing_Offset"]] = 1
    /\ nv_attempts[[proc |-> "write", motor |-> 1, register |-> "Homing_Offset"]] = 1

----------------------------------------------------------------------------
(* SpecConverge: a PositionSmoother that holds a starting value and is
   then called with one target for ever: the control loop calls smooth for
   the motor in every iteration                                            *)

InitConverge == Init
NextConverge == CvFirstCall \/ CvFeed
SpecConverge == InitConverge /\ [][NextConverge]_vars /\ WF_vars(NextConverge)

\* C37: under a constant target the smoothed value comes to equal the
\* target, from a starting value above it or below it, and from then on
\* it stays equal to the target
C37_ReachesTargetAndStays ==
    <>[](cv_pc = "fed" /\ cv_positions[ConvergeMotor] = cv_target)

----------------------------------------------------------------------------
(* SpecWrite: write_positions of a follower called with any positions *)

InitWrite == Init
NextWrite == WritePositionsCall
SpecWrite == InitWrite /\ [][NextWrite]_vars

\* C38: every goal position write_positions sends to a motor lies in
\* [0, resolution - 1], whatever positions it is given
C38_GoalWithinResolution ==
    /\ \A f \in FollowerIds : \A m \in DOMAIN goal[f] :
          0 <= goal[f][m] /\ goal[f][m] <= resolution - 1
    /\ wr_call.n > 0 =>
          \A m \in DOMAIN wr_call.sent :
              0 <= wr_call.sent[m] /\ wr_call.sent[m] <= resolution - 1

\* write_positions was given 65535 for motor 1 and -1 for motor 2 and sent
\* 4095 and 0
C38_ClampedAtBothEnds ==
    /\ wr_call.n > 0
    /\ wr_call.positions = (1 :> 65535) @@ (2 :> -1)
    /\ wr_call.sent = (1 :> 4095) @@ (2 :> 0)
    /\ goal[wr_call.robot_id] = (1 :> 4095) @@ (2 :> 0)

\* C39: an apply_positions that rejects its frame at the staleness gate
\* and returns to the loop, which goes on to clear the frame and poll for
\* the next, has added one to the follower's count of dropped frames
C39_RejectionCounted ==
    [][(pc = "apply" /\ pc' = "clear" /\
        Rejected(now - latest_data.frame.timestamp))
          => dropped_count' = dropped_count + 1]_vars

====
